---- MODULE Spec2Model ----
(***************************************************************************)
(* smartshell (src/main.rs): one run of the CLI.  The main thread parses   *)
(* the command, spawns one worker thread that performs the provider call,  *)
(* polls a channel while drawing a spinner, and dispatches the result to   *)
(* stdout, the log file and the process exit code.                         *)
(*                                                                         *)
(* Option<T> is a sequence of length 0 (None) or 1 (Some).                 *)
(* A char is the number of its code point, a String or &str the sequence   *)
(* of its chars.  Result<String,String> is [ok |-> BOOLEAN, v |-> String]. *)
(***************************************************************************)
EXTENDS Integers, Sequences, FiniteSets, TLC

VARIABLES
    command,    \* Commands variant: "complete" or "explain"
    buffer,     \* --buffer, Option<String>
    query,      \* --query, Option<String> (complete only)
    stdin,      \* outcome of read_line: <<>> on error, <<line>> otherwise
    env,        \* process environment: variable name -> Option<String>
    targetOS,   \* cfg!(target_os): "macos", "linux" or "other"
    keychain,   \* keyring: service name -> Option<String> (<<>> on any Err)
    pc,         \* main thread: "start", then in the loop of llm_api_call
                \* "poll" (at try_recv), "draw" (at the frame write) and
                \* "sleep" (before idx += 1), then "dispatch", "exited";
                \* "resolve" and "resolved" around a lone get_api_key
    wpc,        \* worker thread: "none" before the spawn, then "running",
                \* "requested", "computed", "sent", "done"
    chan,       \* mpsc queue: sequence of Result values in flight
    txAlive,    \* the Sender has not been dropped
    tty,        \* /dev/tty could be opened
    ttyOut,     \* bytes written to /dev/tty
    idx,        \* spinner frame counter
    net,        \* Option: what the network gave the worker
    payload,    \* Option: (result, error) extracted from the structured payload
    wResult,    \* Option: value computed by the worker closure
    wSent,      \* Option: value the worker passed to tx.send
    ret,        \* Option: value returned by llm_api_call
    retVia,     \* try_recv arm that returned: "none", "ok", "disconnected"
    httpCount,  \* HTTP requests issued
    stdout,     \* bytes written to standard output
    log,        \* lines appended to the log file, as records
    exitCode,   \* Option: process exit status
    keyOut      \* Option<Option<String>>: value returned by a get_api_key call

vars == <<command, buffer, query, stdin, env, targetOS, keychain, pc, wpc,
          chan, txAlive, tty, ttyOut, idx, net, payload, wResult, wSent, ret,
          retVia, httpCount, stdout, log, exitCode, keyOut>>

\* ------------------------------------------------------------------ bounds
\* Largest number of empty polls explored in a full run of the program.
MaxPolls == 2

\* Largest number of empty polls explored when the polling loop is studied on
\* its own; more than the number of spinner frames, so the frame index wraps.
MaxSpin == 11

\* ------------------------------------------------------------- Rust basics
None == <<>>
Some(x) == <<x>>
Ok(s) == [ok |-> TRUE, v |-> s]
Err(s) == [ok |-> FALSE, v |-> s]

\* The characters U+0020 to U+005F in the order of their code points.
Ascii1 == " !\"#$%&'()*+,-./0123456789:;<=>?@ABCDEFGHIJKLMNOPQRSTUVWXYZ[\\]^_"

\* The characters U+0061 to U+007E in the order of their code points.
Ascii2 == "abcdefghijklmnopqrstuvwxyz{|}~"

\* The code points of the characters the literals of this module are
\* written with.
CodeOf ==
    [c \in {SubSeq(Ascii1, n, n) : n \in 1..Len(Ascii1)}
           \cup {SubSeq(Ascii2, n, n) : n \in 1..Len(Ascii2)}
           \cup {"\t", "\n", "\r"} |->
        IF c = "\t" THEN 9
        ELSE IF c = "\n" THEN 10
        ELSE IF c = "\r" THEN 13
        ELSE IF \E n \in 1..Len(Ascii1) : SubSeq(Ascii1, n, n) = c
             THEN 31 + (CHOOSE n \in 1..Len(Ascii1) : SubSeq(Ascii1, n, n) = c)
        ELSE 96 + (CHOOSE n \in 1..Len(Ascii2) : SubSeq(Ascii2, n, n) = c)]

\* A char literal: the code point of the one-character text c.
Chr(c) == CodeOf[c]

\* A string literal: the chars of the text s.
Str(s) == [i \in 1..Len(s) |-> CodeOf[SubSeq(s, i, i)]] \o <<>>

\* The grave accent U+0060, which a literal of this module cannot hold.
tick == <<96>>

\* str::starts_with
starts_with(s, p) == Len(s) >= Len(p) /\ SubSeq(s, 1, Len(p)) = p

\* str::contains
contains(s, p) == \E i \in 1..(Len(s) - Len(p) + 1) : SubSeq(s, i, i + Len(p) - 1) = p

\* What stands at a position past the end of a string: no char.
NoChar == 0 - 1

\* Char at position i, NoChar past the end.
Ch(s, i) == IF i >= 1 /\ i <= Len(s) THEN s[i] ELSE NoChar

\* s[i..j] when the range lies inside s, the empty string otherwise.
Slice(s, i, j) == IF i >= 1 /\ i <= j /\ j <= Len(s) THEN SubSeq(s, i, j) ELSE <<>>

\* Least element of a non-empty set of numbers.
Least(S) == CHOOSE j \in S : \A k \in S : j <= k

\* Greatest element of a non-empty set of numbers.
Greatest(S) == CHOOSE j \in S : \A k \in S : j >= k

\* The White_Space chars: U+0009 to U+000D, U+0020, U+0085, U+00A0, U+1680,
\* U+2000 to U+200A, U+2028, U+2029, U+202F, U+205F, U+3000.
WhiteSpace ==
    (9..13) \cup {32, 133, 160, 5760} \cup (8192..8202)
        \cup {8232, 8233, 8239, 8287, 12288}

\* char::is_whitespace
IsWs(c) == c \in WhiteSpace

\* Positions of the chars of s that are not whitespace.
NonWs(s) == {j \in 1..Len(s) : ~IsWs(s[j])}

\* str::trim_start
trim_start(s) == IF NonWs(s) = {} THEN <<>> ELSE Slice(s, Least(NonWs(s)), Len(s))

\* str::trim_end
trim_end(s) == IF NonWs(s) = {} THEN <<>> ELSE Slice(s, 1, Greatest(NonWs(s)))

\* str::trim that leaves the string as it is.
trim_identity(s) == s

\* str::trim
trim(s) == trim_end(trim_start(s))

\* ---------------------------------------------------------------------- f64
\* A natural number of any size is the sequence of its digits in base 4096,
\* the least significant first; digits of zero may follow the last one.
LimbBase == 64 * 64

\* Digit i of a, zero past the end.
Lim(a, i) == IF i >= 1 /\ i <= Len(a) THEN a[i] ELSE 0

\* Positions of the digits of a that are not zero.
NonZeroLimbs(a) == {i \in 1..Len(a) : a[i] # 0}

\* Number of bits of a: 0 for zero, n when 2^(n-1) <= a < 2^n.
BitLen(a) ==
    IF NonZeroLimbs(a) = {} THEN 0
    ELSE 12 * (Greatest(NonZeroLimbs(a)) - 1)
             + Cardinality({k \in 0..11 : 2^k <= a[Greatest(NonZeroLimbs(a))]})

\* Bit n of a, the least significant being bit 0.
Bit(a, n) == (Lim(a, (n \div 12) + 1) \div 2^(n % 12)) % 2

\* The twelve bits of a from bit n on, as a number; bits below bit 0 are zero.
Field(a, n) ==
    IF n >= 0
    THEN (Lim(a, (n \div 12) + 1) \div 2^(n % 12))
             + (Lim(a, (n \div 12) + 2) % 2^(n % 12)) * 2^(12 - (n % 12))
    ELSE IF n <= 0 - 12 THEN 0
    ELSE (Lim(a, 1) % 2^(12 + n)) * 2^(0 - n)

\* a without the digits of zero that follow its last one.
Trim(a) ==
    IF NonZeroLimbs(a) = {} THEN <<>> ELSE SubSeq(a, 1, Greatest(NonZeroLimbs(a)))

\* a >> s
ShiftRight(a, s) == Trim([i \in 1..Len(a) |-> Field(a, s + 12 * (i - 1))])

\* a << s
ShiftLeft(a, s) ==
    Trim([i \in 1..(Len(a) + (s \div 12) + 1) |-> Field(a, 12 * (i - 1) - s)])

\* Some bit of a below bit n is set.
LowBits(a, n) ==
    \E i \in 1..Len(a) :
        /\ 12 * (i - 1) < n
        /\ IF 12 * i <= n THEN a[i] # 0 ELSE a[i] % 2^(n - 12 * (i - 1)) # 0

\* a < b
Less(a, b) ==
    \E i \in 1..Len(b) :
        /\ Lim(a, i) < b[i]
        /\ \A k \in (i + 1)..(IF Len(a) > Len(b) THEN Len(a) ELSE Len(b)) :
               Lim(a, k) = Lim(b, k)

\* The longer of two lengths.
Longer(a, b) == IF Len(a) > Len(b) THEN Len(a) ELSE Len(b)

\* The addition a + b carries into digit i: some digit below overflows, and
\* the digits between pass the carry on.
CarryInto(a, b, i) ==
    \E j \in 1..(i - 1) :
        /\ Lim(a, j) + Lim(b, j) >= LimbBase
        /\ \A k \in (j + 1)..(i - 1) : Lim(a, k) + Lim(b, k) = LimbBase - 1

\* a + b
Add(a, b) ==
    CASE Len(a) = 0 -> Trim(b)
      [] Len(a) # 0 /\ Len(b) = 0 -> Trim(a)
      [] OTHER ->
           Trim([i \in 1..(Longer(a, b) + 1) |->
                    (Lim(a, i) + Lim(b, i) + (IF CarryInto(a, b, i) THEN 1 ELSE 0))
                        % LimbBase])

\* The subtraction a - b borrows from digit i: some digit below is too
\* small, and the digits between pass the borrow on.
BorrowFrom(a, b, i) ==
    \E j \in 1..(i - 1) :
        /\ Lim(a, j) < Lim(b, j)
        /\ \A k \in (j + 1)..(i - 1) : Lim(a, k) = Lim(b, k)

\* a - b for a >= b
Sub(a, b) ==
    CASE Len(b) = 0 -> Trim(a)
      [] OTHER ->
           Trim([i \in 1..Len(a) |->
                    (a[i] - Lim(b, i) - (IF BorrowFrom(a, b, i) THEN 1 ELSE 0) + LimbBase)
                        % LimbBase])

\* a * k + c for k and c below 4096: the low halves of the digit products,
\* their high halves one digit up, and c.
MulSmall(a, k, c) ==
    IF Len(a) = 0 THEN Trim(<<c>>)
    ELSE Add(Add([i \in 1..Len(a) |-> (a[i] * k) % LimbBase],
                 <<0>> \o [i \in 1..Len(a) |-> (a[i] * k) \div LimbBase]),
             <<c>>)

\* Digit c of the product of a and b before the carries, for a of five
\* digits at most: the sum of the products of the digits whose places add
\* up to c.
Column(a, b, c) ==
    Lim(a, 1) * Lim(b, c) + Lim(a, 2) * Lim(b, c - 1) + Lim(a, 3) * Lim(b, c - 2)
        + Lim(a, 4) * Lim(b, c - 3) + Lim(a, 5) * Lim(b, c - 4)

\* a * b for a of five digits at most: the columns, each below 4096^3, are
\* added by their low, middle and high digits.
Mul(a, b) ==
    Add(Add([c \in 1..(Len(b) + 4) |-> Column(a, b, c) % LimbBase],
            <<0>> \o [c \in 1..(Len(b) + 4) |-> (Column(a, b, c) \div LimbBase) % LimbBase]),
        <<0, 0>> \o [c \in 1..(Len(b) + 4) |-> Column(a, b, c) \div (LimbBase * LimbBase)])

\* The number with the first n of the decimal digits d, most significant
\* first, taken three at a time.
RECURSIVE FromDec(_, _)
FromDec(d, n) ==
    CASE n = 0 -> <<>>
      [] n \in {1, 2} -> MulSmall(FromDec(d, n - 1), 10, d[n])
      [] OTHER -> MulSmall(FromDec(d, n - 3), 1000,
                           100 * d[n - 2] + 10 * d[n - 1] + d[n])

\* (a + x) / 2^s for s >= 1 rounded to the nearest integer, ties to even;
\* x is a part below one, which sticky tells not to be zero.
RoundShift(a, s, sticky) ==
    IF Bit(a, s - 1) = 1 /\ (sticky \/ LowBits(a, s - 1) \/ Bit(a, s) = 1)
    THEN Add(ShiftRight(a, s), <<1>>)
    ELSE ShiftRight(a, s)

\* The number of the three digits of a from digit i on.
Top(a, i) == (Lim(a, i + 2) * LimbBase + Lim(a, i + 1)) * LimbBase + Lim(a, i)

\* floor(r / d) for d of 53 bits and r < 4096 * d: the quotient of the leading
\* digits, or a neighbour of it.
QuotientDigit(r, d) ==
    CHOOSE t \in ((Top(r, 4) \div Top(d, 4)) - 1)..((Top(r, 4) \div Top(d, 4)) + 1) :
        /\ t >= 0
        /\ ~Less(r, MulSmall(d, t, 0))
        /\ Less(r, MulSmall(d, t + 1, 0))

\* A division under way: r is the remainder, quo holds the digits of the
\* quotient found so far.
DivState(r, quo) == [r |-> r, quo |-> quo]

\* The digit t of the quotient of r by d joins quo, and the remainder is
\* left.
DivDigit(r, quo, d, t) ==
    IF t = 0 THEN DivState(Trim(r), <<0>> \o quo)
    ELSE DivState(Sub(r, MulSmall(d, t, 0)), <<t>> \o quo)

\* One more digit of the quotient of st by d: the remainder moves up one
\* digit and is divided.
DivStep(st, d) ==
    IF Len(st.r) = 0 THEN DivState(<<>>, <<0>> \o st.quo)
    ELSE DivDigit(<<0>> \o st.r, st.quo, d, QuotientDigit(<<0>> \o st.r, d))

\* floor(r * 4096^n / d) and the remainder it leaves, for d of 53 bits and
\* r < 4096 * d.
RECURSIVE DivLimbs(_, _, _)
DivLimbs(r, d, n) ==
    IF n = 0 THEN DivDigit(r, <<>>, d, QuotientDigit(r, d))
    ELSE DivStep(DivLimbs(r, d, n - 1), d)

\* A finite f64 that is not negative is m * 2^q with m < 2^53; an infinite
\* one has q above 971 with m of 53 bits.
F64(m, q) == [m |-> m, q |-> q]

\* m * 2^q when rounding has carried m to 2^53.
Carried(m, q) == IF BitLen(m) = 54 THEN F64(ShiftRight(m, 1), q + 1) ELSE F64(m, q)

\* The f64 nearest to a * 2^q, ties to even, for a value of 1 or more.
Round53(a, q) ==
    IF BitLen(a) <= 53 THEN F64(a, q)
    ELSE Carried(RoundShift(a, BitLen(a) - 53, FALSE), q + BitLen(a) - 53)

\* significand as f64, the significand given by its decimal digits
u64_as_f64(d) == Round53(FromDec(d, Len(d)), 0)

\* x * y for values of 1 or more, or zero
f64_mul(x, y) == Round53(Mul(x.m, y.m), x.q + y.q)

\* f64::is_infinite
is_infinite(x) == BitLen(x.m) + x.q > 1024

\* (quo + x) * 2^e, quo of n bits, as an f64: 53 bits are kept, or those
\* above 2^-1074 when they are fewer.
DivRound(quo, sticky, e, n) ==
    IF e + n - 53 >= 0 - 1074
    THEN Carried(RoundShift(quo, n - 53, sticky), e + n - 53)
    ELSE F64(RoundShift(quo, (0 - 1074) - e, sticky), 0 - 1074)

\* x / y, given the quotient of the 53-bit significands.
DivOf(dv, e) == DivRound(dv.quo, Len(dv.r) # 0, e, BitLen(dv.quo))

\* x / y for x not zero, shifted by t bits to a significand of 53 bits.
DivShifted(x, y, t) ==
    DivOf(DivLimbs(ShiftLeft(x.m, t), y.m, 5), x.q - t - y.q - 60)

\* x / y for y of POW10
f64_div(x, y) ==
    IF NonZeroLimbs(x.m) = {} THEN x ELSE DivShifted(x, y, 53 - BitLen(x.m))

\* The three hexadecimal digits of a number below 4096.
Nibbles(x) == <<x \div 256, (x \div 16) % 16, x % 16>>

\* f64::to_bits of m * 2^q with the given sign, m of 53 bits or q = -1074, as
\* sixteen hexadecimal digits, the most significant first.
BitsOf(neg, m, q) ==
    Nibbles((IF neg THEN 2048 ELSE 0) + (IF BitLen(m) = 53 THEN q + 1075 ELSE 0))
        \o <<Lim(m, 5) % 16>> \o Nibbles(Lim(m, 4)) \o Nibbles(Lim(m, 3))
        \o Nibbles(Lim(m, 2)) \o Nibbles(Lim(m, 1))

\* The number of bits by which the significand of x is shifted to give it 53
\* bits, or to bring its exponent to -1074 if that is fewer.
Slack(x) ==
    IF NonZeroLimbs(x.m) = {} THEN 0
    ELSE IF 53 - BitLen(x.m) <= x.q + 1074 THEN 53 - BitLen(x.m)
    ELSE x.q + 1074

\* f64::to_bits of the finite x with the given sign
to_bits(neg, x) ==
    IF NonZeroLimbs(x.m) = {} THEN BitsOf(neg, <<>>, 0)
    ELSE BitsOf(neg, ShiftLeft(x.m, Slack(x)), x.q - Slack(x))

\* POW10: the f64 nearest to 10^e at place e + 1, for e from 0 to 308.
POW10 ==
    <<F64(<<0, 0, 0, 0, 16>>, -52),
      F64(<<0, 0, 0, 0, 20>>, -49),
      F64(<<0, 0, 0, 0, 25>>, -46),
      F64(<<0, 0, 0, 1024, 31>>, -43),
      F64(<<0, 0, 0, 2176, 19>>, -39),
      F64(<<0, 0, 0, 1696, 24>>, -36),
      F64(<<0, 0, 0, 2120, 30>>, -33),
      F64(<<0, 0, 0, 301, 19>>, -29),
      F64(<<0, 0, 1024, 3448, 23>>, -26),
      F64(<<0, 0, 1280, 3286, 29>>, -23),
      F64(<<0, 0, 3872, 2565, 18>>, -19),
      F64(<<0, 0, 1768, 1159, 23>>, -16),
      F64(<<0, 0, 1186, 425, 29>>, -13),
      F64(<<0, 1024, 3301, 777, 18>>, -9),
      F64(<<0, 2304, 1054, 3020, 22>>, -6),
      F64(<<0, 832, 1318, 1727, 28>>, -3),
      F64(<<0, 3592, 2359, 3127, 17>>, 1),
      F64(<<0, 3466, 1925, 837, 22>>, 4),
      F64(<<2048, 1260, 3431, 3094, 27>>, 7),
      F64(<<3328, 2323, 1120, 1422, 17>>, 11),
      F64(<<3136, 2904, 3448, 2801, 21>>, 14),
      F64(<<3920, 3630, 1238, 430, 27>>, 17),
      F64(<<1426, 1245, 3846, 3852, 16>>, 21),
      F64(<<2806, 3604, 711, 720, 21>>, 24),
      F64(<<3508, 3481, 889, 1924, 26>>, 27),
      F64(<<657, 640, 2604, 2226, 16>>, 31),
      F64(<<821, 800, 1207, 2783, 20>>, 34),
      F64(<<1026, 4072, 484, 3479, 25>>, 37),
      F64(<<641, 497, 1839, 638, 16>>, 41),
      F64(<<1825, 3693, 250, 798, 20>>, 44),
      F64(<<3306, 2568, 2361, 997, 25>>, 47),
      F64(<<36, 139, 3976, 2270, 31>>, 50),
      F64(<<3607, 86, 1461, 2955, 19>>, 54),
      F64(<<2460, 1132, 802, 2670, 24>>, 57),
      F64(<<3075, 3463, 3050, 3337, 30>>, 60),
      F64(<<3458, 3188, 370, 1062, 19>>, 64),
      F64(<<227, 1938, 2511, 303, 24>>, 67),
      F64(<<2331, 1398, 2115, 379, 30>>, 70),
      F64(<<433, 362, 810, 3309, 18>>, 74),
      F64(<<2589, 2500, 2036, 2088, 23>>, 77),
      F64(<<3237, 3125, 2545, 1586, 29>>, 80),
      F64(<<2535, 417, 2615, 1503, 18>>, 84),
      F64(<<97, 3594, 2244, 3927, 22>>, 87),
      F64(<<2169, 396, 1782, 2861, 28>>, 90),
      F64(<<3404, 3319, 1625, 3836, 17>>, 94),
      F64(<<3230, 1077, 2032, 1723, 22>>, 97),
      F64(<<966, 1347, 1516, 106, 28>>, 100),
      F64(<<92, 2890, 1971, 2114, 17>>, 104),
      F64(<<2163, 2588, 416, 3667, 21>>, 107),
      F64(<<2703, 3235, 3592, 1511, 27>>, 110),
      F64(<<1178, 2022, 3781, 432, 17>>, 114),
      F64(<<3520, 3551, 630, 1565, 21>>, 117),
      F64(<<3376, 2391, 1812, 2980, 26>>, 120),
      F64(<<3646, 3542, 3180, 2886, 16>>, 124),
      F64(<<2510, 332, 1928, 3608, 20>>, 127),
      F64(<<3137, 415, 2410, 414, 26>>, 130),
      F64(<<3497, 1283, 482, 1283, 16>>, 134),
      F64(<<3347, 3652, 3674, 1603, 20>>, 137),
      F64(<<87, 2518, 3569, 2004, 25>>, 140),
      F64(<<2157, 75, 366, 3530, 31>>, 143),
      F64(<<836, 3119, 1252, 3742, 19>>, 147),
      F64(<<21, 3899, 3613, 3653, 24>>, 150),
      F64(<<3099, 1801, 1445, 471, 31>>, 153),
      F64(<<401, 1638, 2439, 1830, 19>>, 157),
      F64(<<2549, 1023, 1001, 1264, 24>>, 160),
      F64(<<2162, 2303, 1251, 1580, 30>>, 163),
      F64(<<2887, 927, 2830, 4059, 18>>, 167),
      F64(<<2585, 3207, 2513, 3026, 23>>, 170),
      F64(<<2207, 937, 1094, 2759, 29>>, 173),
      F64(<<3940, 3657, 2219, 2236, 18>>, 177),
      F64(<<1853, 3548, 2774, 747, 23>>, 180),
      F64(<<2316, 2387, 2444, 4006, 28>>, 183),
      F64(<<935, 3540, 503, 456, 18>>, 187),
      F64(<<1169, 3401, 629, 2618, 22>>, 190),
      F64(<<2485, 1179, 2835, 1224, 28>>, 193),
      F64(<<1041, 225, 1772, 2813, 17>>, 197),
      F64(<<2326, 281, 3239, 444, 22>>, 200),
      F64(<<3931, 3423, 4048, 2603, 27>>, 203),
      F64(<<3993, 2139, 2018, 1115, 17>>, 207),
      F64(<<3967, 626, 1499, 2418, 21>>, 210),
      F64(<<2911, 3855, 3921, 4046, 26>>, 213),
      F64(<<3355, 873, 1427, 3553, 16>>, 217),
      F64(<<1122, 68, 2808, 345, 21>>, 220),
      F64(<<1403, 85, 438, 1456, 26>>, 223),
      F64(<<1389, 3125, 273, 1934, 16>>, 227),
      F64(<<2760, 834, 2390, 2417, 20>>, 230),
      F64(<<1402, 3091, 4011, 3021, 25>>, 233),
      F64(<<364, 1420, 3019, 352, 16>>, 237),
      F64(<<455, 751, 3774, 440, 20>>, 240),
      F64(<<3641, 2986, 621, 551, 25>>, 243),
      F64(<<2503, 661, 3849, 1712, 31>>, 246),
      F64(<<2077, 2973, 2405, 2606, 19>>, 250),
      F64(<<3620, 644, 959, 2234, 24>>, 253),
      F64(<<429, 3878, 3246, 2792, 30>>, 256),
      F64(<<3340, 1399, 2029, 721, 19>>, 260),
      F64(<<3151, 2773, 3560, 3973, 23>>, 263),
      F64(<<867, 3467, 1378, 3943, 29>>, 266),
      F64(<<30, 3191, 2397, 2976, 18>>, 270),
      F64(<<3109, 916, 2997, 1672, 23>>, 273),
      F64(<<3886, 2169, 3746, 1066, 29>>, 276),
      F64(<<893, 2380, 3365, 1178, 18>>, 280),
      F64(<<1116, 3999, 2158, 3521, 22>>, 283),
      F64(<<371, 2951, 3722, 2353, 28>>, 286),
      F64(<<1768, 2868, 790, 3519, 17>>, 290),
      F64(<<2210, 1537, 4060, 1326, 22>>, 293),
      F64(<<3786, 1921, 3027, 3706, 27>>, 296),
      F64(<<831, 689, 2916, 1804, 17>>, 300),
      F64(<<2062, 861, 3645, 3279, 21>>, 303),
      F64(<<3602, 2100, 3532, 1027, 27>>, 306),
      F64(<<203, 3361, 1695, 130, 17>>, 310),
      F64(<<1278, 3177, 71, 1187, 21>>, 313),
      F64(<<2621, 2947, 3161, 2507, 26>>, 316),
      F64(<<1126, 306, 1464, 2591, 16>>, 320),
      F64(<<3456, 382, 806, 3239, 20>>, 323),
      F64(<<2272, 2526, 4079, 4048, 25>>, 326),
      F64(<<396, 3115, 2549, 994, 16>>, 330),
      F64(<<3567, 821, 1139, 1243, 20>>, 333),
      F64(<<1387, 3, 400, 1554, 25>>, 336),
      F64(<<709, 4, 2548, 2966, 31>>, 339),
      F64(<<2491, 2050, 568, 3390, 19>>, 343),
      F64(<<1066, 2563, 2758, 3213, 24>>, 346),
      F64(<<309, 1156, 376, 4017, 30>>, 349),
      F64(<<2241, 722, 2795, 1486, 19>>, 353),
      F64(<<753, 3975, 1445, 834, 24>>, 356),
      F64(<<4013, 1896, 3855, 1042, 30>>, 359),
      F64(<<2508, 2721, 3433, 3723, 18>>, 363),
      F64(<<63, 330, 3268, 2606, 23>>, 366),
      F64(<<2127, 412, 2037, 2234, 29>>, 369),
      F64(<<3378, 769, 2297, 1908, 18>>, 373),
      F64(<<1150, 1986, 2871, 337, 23>>, 376),
      F64(<<3486, 1458, 517, 3494, 28>>, 379),
      F64(<<3202, 1423, 3395, 135, 18>>, 383),
      F64(<<2979, 755, 3220, 2217, 22>>, 386),
      F64(<<2700, 944, 953, 724, 28>>, 389),
      F64(<<1687, 3150, 2643, 2500, 17>>, 393),
      F64(<<61, 2914, 3304, 53, 22>>, 396),
      F64(<<2125, 3642, 1058, 2115, 27>>, 399),
      F64(<<2352, 3300, 149, 810, 17>>, 403),
      F64(<<2940, 1053, 2235, 2036, 21>>, 406),
      F64(<<603, 293, 2794, 3569, 26>>, 409),
      F64(<<889, 1207, 210, 3255, 16>>, 413),
      F64(<<87, 3557, 3334, 4068, 20>>, 416),
      F64(<<1133, 2398, 72, 990, 26>>, 419),
      F64(<<3780, 1498, 3117, 1642, 16>>, 423),
      F64(<<2677, 2897, 1848, 2053, 20>>, 426),
      F64(<<274, 3622, 3334, 2566, 25>>, 429),
      F64(<<3243, 1239, 1060, 68, 16>>, 433),
      F64(<<3030, 1549, 1325, 85, 20>>, 436),
      F64(<<716, 2961, 2680, 106, 25>>, 439),
      F64(<<1919, 3701, 1302, 1157, 31>>, 442),
      F64(<<1711, 1289, 1326, 2259, 19>>, 446),
      F64(<<3163, 3659, 633, 1800, 24>>, 449),
      F64(<<2930, 1502, 792, 2250, 30>>, 452),
      F64(<<807, 939, 1519, 382, 19>>, 456),
      F64(<<4081, 149, 3947, 3549, 23>>, 459),
      F64(<<2029, 3259, 1861, 3413, 29>>, 462),
      F64(<<756, 2549, 1675, 2645, 18>>, 466),
      F64(<<1969, 2162, 3118, 1258, 23>>, 469),
      F64(<<413, 655, 1850, 549, 29>>, 472),
      F64(<<1794, 1433, 1668, 855, 18>>, 476),
      F64(<<3267, 1791, 1061, 3117, 22>>, 479),
      F64(<<3060, 3263, 2350, 1848, 28>>, 482),
      F64(<<3448, 1015, 1469, 3203, 17>>, 486),
      F64(<<3286, 2293, 812, 932, 22>>, 489),
      F64(<<1036, 2867, 1015, 3213, 27>>, 492),
      F64(<<135, 3328, 1146, 1496, 17>>, 496),
      F64(<<169, 2112, 1433, 2894, 21>>, 499),
      F64(<<212, 3664, 3839, 545, 27>>, 502),
      F64(<<132, 3826, 863, 3925, 16>>, 506),
      F64(<<2213, 3758, 2103, 810, 21>>, 509),
      F64(<<719, 3674, 581, 2037, 26>>, 512),
      F64(<<1473, 2808, 875, 2297, 16>>, 516),
      F64(<<1842, 2486, 2118, 2871, 20>>, 519),
      F64(<<254, 1060, 1624, 3589, 25>>, 522),
      F64(<<2207, 662, 1527, 707, 16>>, 526),
      F64(<<710, 3900, 884, 884, 20>>, 529),
      F64(<<888, 779, 1106, 1105, 25>>, 532),
      F64(<<86, 3022, 2406, 2405, 31>>, 535),
      F64(<<3126, 864, 2016, 3039, 19>>, 539),
      F64(<<3907, 1080, 1496, 2775, 24>>, 542),
      F64(<<788, 1351, 846, 3469, 30>>, 545),
      F64(<<2028, 3916, 1040, 1144, 19>>, 549),
      F64(<<2536, 799, 1301, 406, 24>>, 552),
      F64(<<2145, 2023, 3674, 507, 30>>, 555),
      F64(<<2877, 2288, 1784, 3389, 18>>, 559),
      F64(<<3596, 2860, 3254, 2188, 23>>, 562),
      F64(<<399, 1528, 4068, 1711, 29>>, 565),
      F64(<<249, 3003, 4078, 1581, 18>>, 569),
      F64(<<3384, 1705, 2026, 4025, 22>>, 572),
      F64(<<1158, 84, 3557, 2983, 28>>, 575),
      F64(<<2772, 564, 3759, 3912, 17>>, 579),
      F64(<<3465, 3777, 602, 1819, 22>>, 582),
      F64(<<1259, 2674, 3825, 225, 28>>, 585),
      F64(<<1811, 135, 855, 2189, 17>>, 589),
      F64(<<1239, 3241, 2092, 3760, 21>>, 592),
      F64(<<2573, 4051, 2615, 1628, 27>>, 595),
      F64(<<1096, 4068, 3682, 505, 17>>, 599),
      F64(<<1370, 3037, 1531, 1656, 21>>, 602),
      F64(<<2737, 2772, 1914, 3094, 26>>, 605),
      F64(<<3759, 2756, 172, 2958, 16>>, 609),
      F64(<<602, 3446, 2263, 3697, 20>>, 612),
      F64(<<2801, 3283, 3853, 525, 26>>, 615),
      F64(<<1238, 2564, 2920, 1352, 16>>, 619),
      F64(<<1548, 3205, 3650, 1690, 20>>, 622),
      F64(<<2959, 1958, 2515, 2113, 25>>, 625),
      F64(<<1651, 1424, 72, 3666, 31>>, 628),
      F64(<<1032, 890, 1069, 3827, 19>>, 632),
      F64(<<3338, 2136, 312, 3760, 24>>, 635),
      F64(<<76, 2671, 390, 604, 31>>, 638),
      F64(<<1584, 645, 2292, 1913, 19>>, 642),
      F64(<<3003, 806, 3889, 1367, 24>>, 645),
      F64(<<1706, 2032, 3837, 1709, 30>>, 648),
      F64(<<1066, 1782, 2910, 44, 19>>, 652),
      F64(<<3381, 179, 3638, 3127, 23>>, 655),
      F64(<<3202, 2272, 3523, 2885, 29>>, 658),
      F64(<<2001, 908, 2714, 2315, 18>>, 662),
      F64(<<2502, 3183, 2368, 846, 23>>, 665),
      F64(<<2103, 3979, 912, 34, 29>>, 668),
      F64(<<803, 2487, 1594, 533, 18>>, 672),
      F64(<<4075, 1060, 3017, 2714, 22>>, 675),
      F64(<<998, 2350, 1723, 1345, 28>>, 678),
      F64(<<3696, 956, 3637, 2888, 17>>, 682),
      F64(<<524, 2220, 450, 539, 22>>, 685),
      F64(<<655, 727, 3635, 2721, 27>>, 688),
      F64(<<1945, 4038, 735, 1189, 17>>, 692),
      F64(<<383, 4024, 1943, 2510, 21>>, 695),
      F64(<<479, 4006, 381, 66, 27>>, 698),
      F64(<<3372, 3015, 1262, 3625, 16>>, 702),
      F64(<<3190, 1721, 2602, 435, 21>>, 705),
      F64(<<916, 104, 2229, 1568, 26>>, 708),
      F64(<<573, 577, 1393, 2004, 16>>, 712),
      F64(<<1740, 1745, 1741, 2505, 20>>, 715),
      F64(<<3199, 3205, 3200, 3131, 25>>, 718),
      F64(<<2511, 2003, 1488, 421, 16>>, 722),
      F64(<<2115, 2504, 2884, 526, 20>>, 725),
      F64(<<2644, 3130, 1557, 658, 25>>, 728),
      F64(<<1257, 841, 3995, 1846, 31>>, 731),
      F64(<<3345, 13, 1473, 2690, 19>>, 735),
      F64(<<1110, 1041, 3889, 2338, 24>>, 738),
      F64(<<2411, 2325, 2813, 2923, 30>>, 741),
      F64(<<2019, 1965, 1246, 803, 19>>, 745),
      F64(<<3548, 408, 534, 4076, 23>>, 748),
      F64(<<339, 2559, 667, 4071, 29>>, 751),
      F64(<<1748, 1087, 1953, 3056, 18>>, 755),
      F64(<<1161, 2383, 2441, 1772, 23>>, 758),
      F64(<<427, 4003, 3051, 1191, 29>>, 761),
      F64(<<3851, 1989, 3443, 1256, 18>>, 765),
      F64(<<1741, 1463, 208, 3619, 22>>, 768),
      F64(<<1153, 1829, 3332, 2475, 28>>, 771),
      F64(<<1232, 3191, 1570, 3595, 17>>, 775),
      F64(<<516, 1941, 939, 1422, 22>>, 778),
      F64(<<1670, 1402, 3222, 3825, 27>>, 781),
      F64(<<2068, 3948, 477, 1879, 17>>, 785),
      F64(<<2584, 1863, 3669, 3372, 21>>, 788),
      F64(<<2206, 3353, 490, 1144, 27>>, 791),
      F64(<<3939, 3119, 306, 203, 17>>, 795),
      F64(<<3900, 1851, 3455, 1277, 21>>, 798),
      F64(<<3851, 1290, 1247, 2621, 26>>, 801),
      F64(<<3431, 2342, 1291, 2662, 16>>, 805),
      F64(<<2240, 1904, 3662, 3327, 20>>, 808),
      F64(<<2801, 332, 3554, 63, 26>>, 811),
      F64(<<3798, 1231, 3757, 1063, 16>>, 815),
      F64(<<3724, 2563, 3672, 1329, 20>>, 818),
      F64(<<3631, 3204, 1518, 1662, 25>>, 821),
      F64(<<443, 1958, 3946, 3101, 31>>, 824),
      F64(<<3349, 2247, 2978, 3474, 19>>, 828),
      F64(<<3162, 761, 1675, 3319, 24>>, 831),
      F64(<<880, 4024, 1069, 53, 31>>, 834),
      F64(<<550, 3027, 1180, 1569, 19>>, 838),
      F64(<<3760, 3783, 2499, 937, 24>>, 841),
      F64(<<3676, 3705, 52, 1172, 30>>, 844),
      F64(<<761, 268, 2081, 3804, 18>>, 848),
      F64(<<952, 1359, 2601, 2707, 23>>, 851),
      F64(<<165, 2723, 2227, 2360, 29>>, 854),
      F64(<<3687, 1189, 1392, 1987, 18>>, 858),
      F64(<<1537, 1487, 716, 436, 23>>, 861),
      F64(<<898, 1859, 895, 3617, 28>>, 864),
      F64(<<49, 2698, 3119, 212, 18>>, 868),
      F64(<<2109, 2348, 3899, 2313, 22>>, 871),
      F64(<<2637, 1911, 1802, 844, 28>>, 874),
      F64(<<3184, 2218, 3174, 2575, 17>>, 878),
      F64(<<1932, 725, 2944, 147, 22>>, 881),
      F64(<<3439, 906, 2656, 2232, 27>>, 884),
      F64(<<3173, 566, 1660, 883, 17>>, 888),
      F64(<<1919, 708, 1051, 2128, 21>>, 891),
      F64(<<2398, 3957, 1313, 3684, 26>>, 894),
      F64(<<2011, 937, 2869, 3326, 16>>, 898),
      F64(<<3538, 2195, 1538, 62, 21>>, 901),
      F64(<<3398, 696, 3971, 1101, 26>>, 904),
      F64(<<2124, 4019, 2993, 1712, 16>>, 908),
      F64(<<1631, 1952, 3742, 2140, 20>>, 911),
      F64(<<2038, 392, 582, 2676, 25>>, 914),
      F64(<<1274, 3317, 2411, 136, 16>>, 918),
      F64(<<2616, 3122, 3014, 170, 20>>, 921),
      F64(<<1223, 1855, 1720, 213, 25>>, 924),
      F64(<<504, 2319, 3174, 1290, 31>>, 927),
      F64(<<1851, 425, 3008, 2342, 19>>, 931),
      F64(<<3338, 531, 1712, 1904, 24>>, 934),
      F64(<<3148, 664, 2140, 2380, 30>>, 937),
      F64(<<1968, 2463, 3385, 463, 19>>, 941),
      F64(<<1436, 7, 3208, 3651, 23>>, 944),
      F64(<<771, 9, 2986, 3540, 29>>, 947),
      F64(<<3042, 1029, 3914, 2724, 18>>, 951),
      F64(<<730, 3335, 796, 1358, 23>>, 954),
      F64(<<3984, 72, 3044, 673, 29>>, 957),
      F64(<<2490, 2093, 366, 933, 18>>, 961),
      F64(<<41, 569, 1482, 3214, 22>>, 964),
      F64(<<1075, 2759, 3900, 1969, 28>>, 967),
      F64(<<2208, 3772, 901, 3279, 17>>, 971)>>

\* ------------------------------------------------------- serde_json::Value
JNull == [t |-> "null"]
JBool(b) == [t |-> "bool", v |-> b]
JStr(s) == [t |-> "str", v |-> s]
JArr(a) == [t |-> "arr", v |-> a]
JObj(f) == [t |-> "obj", v |-> f]

\* Number::PosInt (kind "u64") and Number::NegInt (kind "i64"): digits are
\* the decimal digits of the magnitude, most significant first.
JInt(kind, d) == [t |-> "num", kind |-> kind, digits |-> d, bits |-> <<>>]

\* Number::Float: bits are the sixteen hexadecimal digits of f64::to_bits.
JFloat(positive, x) ==
    [t |-> "num", kind |-> "f64", digits |-> <<>>, bits |-> to_bits(~positive, x)]

\* The empty map of an object.
NoMembers == [k \in {} |-> JNull]

\* b'0'..=b'9'
IsDigit(c) == c >= Chr("0") /\ c <= Chr("9")

\* decode_hex_val: the hexadecimal digits
IsHex(c) ==
    \/ IsDigit(c)
    \/ (c >= Chr("a") /\ c <= Chr("f"))
    \/ (c >= Chr("A") /\ c <= Chr("F"))

\* decode_hex_val
HexVal(c) ==
    IF IsDigit(c) THEN c - Chr("0")
    ELSE IF c >= Chr("a") THEN c - Chr("a") + 10
    ELSE c - Chr("A") + 10

\* Display for usize: the decimal text of a natural number.
RECURSIVE ToDec(_)
ToDec(n) ==
    IF n < 10 THEN <<Chr("0") + n>>
    ELSE Append(ToDec(n \div 10), Chr("0") + (n % 10))

\* Deserializer::parse_whitespace: the first position from i on that holds
\* no JSON whitespace.
SkipWs(s, i) ==
    IF i > Len(s) THEN i
    ELSE Least({j \in i..(Len(s) + 1) :
                   Ch(s, j) \notin {Chr(" "), Chr("\n"), Chr("\t"), Chr("\r")}})

\* The first position from i on that holds no digit.
DigitsEnd(s, i) ==
    IF i > Len(s) THEN i
    ELSE Least({j \in i..(Len(s) + 1) : ~IsDigit(Ch(s, j))})

\* Number of UTF-8 bytes of the first k chars of s: the index of the reader
\* when it has read them.
Off(s, k) ==
    k + Cardinality({j \in 1..k : s[j] >= 128})
      + Cardinality({j \in 1..k : s[j] >= 2048})
      + Cardinality({j \in 1..k : s[j] >= 65536})

\* A parse that failed with the given ErrorCode at byte index at.
PFail(code, at) == [ok |-> FALSE, v |-> JNull, i |-> 0, code |-> code, at |-> at]

\* A parse that gave val; i is the next position to read.
POk(val, i) == [ok |-> TRUE, v |-> val, i |-> i, code |-> <<>>, at |-> 0]

\* Deserializer::error and read::error: the failure is where the reader
\* stands, k chars read.
error_at(s, code, k) == PFail(code, Off(s, k))

\* Deserializer::peek_error with k chars read: the failure is one byte
\* further, if there is one.  It is also where error_at puts a failure on a
\* byte that was read as the last one.
peek_error(s, code, k) ==
    PFail(code, IF k < Len(s) THEN Off(s, k) + 1 ELSE Off(s, k))

\* The line feeds among the first b bytes of s.
LineBreaks(s, b) == {j \in 1..Len(s) : s[j] = Chr("\n") /\ Off(s, j) <= b}

\* SliceRead::position_of_index, the line: one more than the line feeds
\* before byte index b.
line_of(s, b) == 1 + Cardinality(LineBreaks(s, b))

\* SliceRead::position_of_index, the column: the bytes between the last line
\* feed and byte index b.
column_of(s, b) ==
    IF LineBreaks(s, b) = {} THEN b ELSE b - Off(s, Greatest(LineBreaks(s, b)))

\* Display for serde_json::Error: the message of the failed parse r of s.
ErrorText(s, r) ==
    r.code \o Str(" at line ") \o ToDec(line_of(s, r.at))
           \o Str(" column ") \o ToDec(column_of(s, r.at))

\* Display for ErrorCode: the texts of the error codes.
EofWhileParsingList == Str("EOF while parsing a list")
EofWhileParsingObject == Str("EOF while parsing an object")
EofWhileParsingString == Str("EOF while parsing a string")
EofWhileParsingValue == Str("EOF while parsing a value")
ExpectedSomeIdent == Str("expected ident")
ExpectedSomeValue == Str("expected value")
InvalidEscape == Str("invalid escape")
InvalidNumber == Str("invalid number")
NumberOutOfRange == Str("number out of range")
ControlCharacterWhileParsingString == Str("control character (\\u0000-\\u001F) found while parsing a string")
KeyMustBeAString == Str("key must be a string")
LoneLeadingSurrogateInHexEscape == Str("lone leading surrogate in hex escape")
TrailingComma == Str("trailing comma")
TrailingCharacters == Str("trailing characters")
UnexpectedEndOfHexEscape == Str("unexpected end of hex escape")
RecursionLimitExceeded == Str("recursion limit exceeded")
ExpectedColon == Str("expected ") \o tick \o Str(":") \o tick
ExpectedListCommaOrEnd ==
    Str("expected ") \o tick \o Str(",") \o tick \o Str(" or ") \o tick \o Str("]") \o tick
ExpectedObjectCommaOrEnd ==
    Str("expected ") \o tick \o Str(",") \o tick \o Str(" or ") \o tick \o Str("}") \o tick

\* The first position from i on that holds a quote, a backslash or a control
\* character, or the position after the end of s.
StrSpecial(s, i) ==
    Least({j \in i..(Len(s) + 1) :
              Ch(s, j) < 32 \/ Ch(s, j) = Chr("\"") \/ Ch(s, j) = Chr("\\")})

\* The char a one-letter escape stands for.
Decode(e) ==
    IF e = Chr("b") THEN 8
    ELSE IF e = Chr("f") THEN 12
    ELSE IF e = Chr("n") THEN Chr("\n")
    ELSE IF e = Chr("r") THEN Chr("\r")
    ELSE IF e = Chr("t") THEN Chr("\t")
    ELSE e

\* An escape that was read: acc is the scratch with its char pushed, i the
\* next position.
EscOk(acc, i) == [ok |-> TRUE, acc |-> acc, i |-> i, fail |-> PFail(<<>>, 0)]

\* An escape that failed with f.
EscFail(f) == [ok |-> FALSE, acc |-> <<>>, i |-> 0, fail |-> f]

\* SliceRead::decode_hex_escape: the four bytes from position h on as a
\* number; n is the number, fail the failure when ok is FALSE.
decode_hex_escape(s, h) ==
    IF Off(s, Len(s)) - Off(s, h - 1) < 4
    THEN [ok |-> FALSE, n |-> 0, fail |-> error_at(s, EofWhileParsingString, Len(s))]
    ELSE IF \A j \in h..(h + 3) : IsHex(Ch(s, j))
    THEN [ok |-> TRUE,
          n |-> 4096 * HexVal(Ch(s, h)) + 256 * HexVal(Ch(s, h + 1))
                    + 16 * HexVal(Ch(s, h + 2)) + HexVal(Ch(s, h + 3)),
          fail |-> PFail(<<>>, 0)]
    ELSE [ok |-> FALSE, n |-> 0, fail |-> PFail(InvalidEscape, Off(s, h - 1) + 4)]

\* parse_unicode_escape after the second number d2 of a surrogate pair: the
\* char of the code point the pair encodes.
UnicodeSecond(s, h, acc, n1, d2) ==
    IF ~d2.ok THEN EscFail(d2.fail)
    ELSE IF d2.n < 56320 \/ d2.n > 57343
         THEN EscFail(error_at(s, LoneLeadingSurrogateInHexEscape, h + 9))
    ELSE EscOk(Append(acc, 65536 + (n1 - 55296) * 1024 + (d2.n - 56320)), h + 10)

\* parse_unicode_escape after its first number d: the char of that code
\* point when it lies outside the surrogates, or a leading surrogate that
\* "\u" and a trailing one follow.
UnicodeFirst(s, h, acc, d) ==
    IF ~d.ok THEN EscFail(d.fail)
    ELSE IF d.n >= 56320 /\ d.n <= 57343
         THEN EscFail(error_at(s, LoneLeadingSurrogateInHexEscape, h + 3))
    ELSE IF d.n < 55296 \/ d.n > 56319 THEN EscOk(Append(acc, d.n), h + 4)
    ELSE IF Ch(s, h + 4) = NoChar THEN EscFail(error_at(s, EofWhileParsingString, Len(s)))
    ELSE IF Ch(s, h + 4) # Chr("\\")
         THEN EscFail(peek_error(s, UnexpectedEndOfHexEscape, h + 3))
    ELSE IF Ch(s, h + 5) = NoChar THEN EscFail(error_at(s, EofWhileParsingString, Len(s)))
    ELSE IF Ch(s, h + 5) # Chr("u")
         THEN EscFail(peek_error(s, UnexpectedEndOfHexEscape, h + 4))
    ELSE UnicodeSecond(s, h, acc, d.n, decode_hex_escape(s, h + 6))

\* read::parse_unicode_escape: h is the position after "\u".
parse_unicode_escape(s, h, acc) == UnicodeFirst(s, h, acc, decode_hex_escape(s, h))

\* read::parse_escape: e is the position after the backslash, acc the
\* scratch.
parse_escape(s, e, acc) ==
    IF Ch(s, e) = NoChar THEN EscFail(error_at(s, EofWhileParsingString, Len(s)))
    ELSE IF Ch(s, e) \in {Chr("\""), Chr("\\"), Chr("/"), Chr("b"), Chr("f"),
                          Chr("n"), Chr("r"), Chr("t")}
         THEN EscOk(Append(acc, Decode(Ch(s, e))), e + 1)
    ELSE IF Ch(s, e) = Chr("u") THEN parse_unicode_escape(s, e + 1, acc)
    ELSE EscFail(peek_error(s, InvalidEscape, e - 1))

RECURSIVE parse_str(_, _, _), StrStop(_, _, _, _), StrResume(_, _)

\* SliceRead::parse_str_bytes: the rest of a string literal; i is the next
\* position, acc the chars decoded so far.
parse_str(s, i, acc) == StrStop(s, i, acc, StrSpecial(s, i))

\* parse_str at the first special position j: the end of s, the closing
\* quote, an escape, or a raw control character.
StrStop(s, i, acc, j) ==
    CASE Ch(s, j) = NoChar -> error_at(s, EofWhileParsingString, Len(s))
      [] Ch(s, j) = Chr("\"") -> POk(JStr(acc \o Slice(s, i, j - 1)), j + 1)
      [] Ch(s, j) = Chr("\\") ->
             StrResume(s, parse_escape(s, j + 1, acc \o Slice(s, i, j - 1)))
      [] OTHER -> error_at(s, ControlCharacterWhileParsingString, j)

\* parse_str after the escape e: the loop goes on behind it.
StrResume(s, e) == IF e.ok THEN parse_str(s, e.i, e.acc) ELSE e.fail
\* Positions of the decimal digits of d that are not zero.
NonZero(d) == {m \in 1..Len(d) : d[m] # 0}

\* The digits of the number the decimal digits d give, most significant
\* first: d without its leading zeros.
Significand(d) ==
    IF NonZero(d) = {} THEN <<0>> ELSE SubSeq(d, Least(NonZero(d)), Len(d))

\* Positions at which the digits a and b differ, up to the shorter.
Differ(a, b) == {m \in 1..Len(a) : m <= Len(b) /\ a[m] # b[m]}

\* a <= b for natural numbers in decimal digits without leading zeros.
DecLE(a, b) ==
    \/ Len(a) < Len(b)
    \/ /\ Len(a) = Len(b)
       /\ \/ Differ(a, b) = {}
          \/ a[Least(Differ(a, b))] < b[Least(Differ(a, b))]

\* u64::MAX
U64Max == <<1, 8, 4, 4, 6, 7, 4, 4, 0, 7, 3, 7, 0, 9, 5, 5, 1, 6, 1, 5>>

\* The magnitude of i64::MIN
I64MinMagnitude == <<9, 2, 2, 3, 3, 7, 2, 0, 3, 6, 8, 5, 4, 7, 7, 5, 8, 0, 8>>

\* The digits at the positions a to b of s, as numbers.
DigitVals(s, a, b) == [m \in 1..(b - a + 1) |-> s[a + m - 1] - Chr("0")] \o <<>>

\* overflow!(significand * 10 + digit, u64::MAX) along the digits x: how many
\* of them the significand d takes before the next one would overflow.
Taken(d, x) ==
    Greatest({k \in 0..Len(x) : DecLE(Significand(d \o SubSeq(x, 1, k)), U64Max)})

\* Zero as an f64 with the given sign.
FloatZero(positive) == JFloat(positive, F64(<<>>, 0))

\* f64_from_parts after the multiplication of line "f *= pow": the product,
\* or None when it is infinite.
Finite(x) == IF is_infinite(x) THEN None ELSE Some(x)

\* POW10.get(n as usize): None past the end of the table, where a negative
\* n lies as a usize.
pow10_get(n) == IF n >= 0 /\ n <= 308 THEN Some(POW10[n + 1]) ELSE None

\* The f64 literal 1e308.
E308 == F64(<<2208, 3772, 901, 3279, 17>>, 971)

\* i32::wrapping_abs: i32::MIN is left as it is.
wrapping_abs(e) == IF e < 0 /\ e # (0 - 2147483647) - 1 THEN 0 - e ELSE e

\* One turn of the loop of f64_from_parts on the f64 x and the exponent e:
\* pow is POW10.get(exponent.wrapping_abs()), quo what "f /= pow" or
\* "f /= 1e308" leaves where the turn divides.
RECURSIVE Scale(_, _), ScaleWith(_, _, _), ScaleBy(_, _, _, _)
ScaleBy(x, e, pow, quo) ==
    CASE pow # None /\ e >= 0 -> Finite(f64_mul(x, pow[1]))
      [] pow # None /\ e < 0 -> Some(quo)
      [] pow = None /\ NonZeroLimbs(x.m) = {} -> Some(x)
      [] pow = None /\ NonZeroLimbs(x.m) # {} /\ e >= 0 -> None
      [] OTHER -> Scale(quo, e + 308)

\* The loop of f64_from_parts on the f64 x and the exponent e: the f64 it
\* leaves, or None where it returns the error NumberOutOfRange.
Scale(x, e) == ScaleWith(x, e, pow10_get(wrapping_abs(e)))

\* The loop of f64_from_parts, given pow, the entry of POW10 of this turn.
ScaleWith(x, e, pow) ==
    ScaleBy(x, e, pow, f64_div(x, IF pow = None THEN E308 ELSE pow[1]))

\* The return of f64_from_parts on what the loop left: the error stands
\* before q, the position the value ends at.
Scaled(s, positive, f, q) ==
    IF f = None THEN error_at(s, NumberOutOfRange, q - 1)
    ELSE POk(JFloat(positive, f[1]), q)

\* Deserializer::f64_from_parts: the significand with decimal digits d times
\* 10^e; q is the next position.
f64_from_parts(s, positive, d, e, q) == Scaled(s, positive, Scale(u64_as_f64(d), e), q)

\* The arguments d and e of a call of f64_from_parts that ends parse_decimal,
\* parse_exponent or parse_long_integer at position q; parse_any_number
\* makes the call.
Parts(d, e, q) == POk([t |-> "parts", digits |-> d, exp |-> e], q)

\* Deserializer::parse_number, an integer literal with digits d: u64 when
\* positive, i64 when negative, f64 for minus zero and below i64::MIN.
integer_value(s, positive, d, q) ==
    IF positive THEN POk(JInt("u64", d), q)
    ELSE IF d # <<0>> /\ DecLE(d, I64MinMagnitude) THEN POk(JInt("i64", d), q)
    ELSE POk(JFloat(FALSE, u64_as_f64(d)), q)

\* i32::saturating_add for b >= 0
saturating_add(a, b) == IF a > 0 /\ b > 2147483647 - a THEN 2147483647 ELSE a + b

\* i32::saturating_sub for b >= 0
saturating_sub(a, b) ==
    IF a >= 0 \/ b - 1 <= a + 2147483647 THEN a - b ELSE (0 - 2147483647) - 1

\* The digits of an exponent from position p to q - 1 as a number; over
\* tells that it exceeds i32::MAX, k the chars read by then.
RECURSIVE exponent_digits(_, _, _, _)
exponent_digits(s, p, q, acc) ==
    IF p >= q THEN [over |-> FALSE, v |-> acc, k |-> q - 1]
    ELSE IF acc > 214748364 \/ (acc = 214748364 /\ s[p] - Chr("0") > 7)
         THEN [over |-> TRUE, v |-> 0, k |-> p]
    ELSE exponent_digits(s, p + 1, q, 10 * acc + (s[p] - Chr("0")))

\* Deserializer::parse_exponent after its digits x, which end before q, and
\* parse_exponent_overflow.
ExponentValue(s, positive, d, e0, positive_exp, x, q) ==
    IF x.over
    THEN IF NonZero(d) # {} /\ positive_exp THEN error_at(s, NumberOutOfRange, x.k)
         ELSE POk(FloatZero(positive), q)
    ELSE Parts(d, IF positive_exp THEN saturating_add(e0, x.v)
                  ELSE saturating_sub(e0, x.v), q)

\* Deserializer::parse_exponent from its first digit on, at position p.
ExponentDigits(s, positive, d, e0, positive_exp, p) ==
    CASE Ch(s, p) = NoChar -> error_at(s, EofWhileParsingValue, Len(s))
      [] Ch(s, p) # NoChar /\ ~IsDigit(Ch(s, p)) -> peek_error(s, InvalidNumber, p - 1)
      [] OTHER -> ExponentValue(s, positive, d, e0, positive_exp,
                       exponent_digits(s, p, DigitsEnd(s, p), 0), DigitsEnd(s, p))

\* Deserializer::parse_exponent: g is the position of the 'e', d the digits
\* of the significand, e0 the exponent they carry.
parse_exponent(s, positive, d, e0, g) ==
    IF Ch(s, g + 1) \in {Chr("+"), Chr("-")}
    THEN ExponentDigits(s, positive, d, e0, Ch(s, g + 1) = Chr("+"), g + 2)
    ELSE ExponentDigits(s, positive, d, e0, TRUE, g + 1)

\* Deserializer::parse_decimal and parse_decimal_overflow after the digits x
\* that follow the point, of which the significand takes the first k; f is
\* the position after them.
DecimalTaken(s, positive, d, e0, x, k, f) ==
    IF Ch(s, f) \in {Chr("e"), Chr("E")}
    THEN parse_exponent(s, positive, Significand(d \o SubSeq(x, 1, k)), e0 - k, f)
    ELSE Parts(Significand(d \o SubSeq(x, 1, k)), e0 - k, f)

\* Deserializer::parse_decimal: j is the position of the point, x the digits
\* that follow it, f the position after them, d the digits of the
\* significand and e0 the exponent they carry.
DecimalDigits(s, positive, d, e0, j, x, f) ==
    IF x = <<>>
    THEN peek_error(s, IF Ch(s, f) = NoChar THEN EofWhileParsingValue
                       ELSE InvalidNumber, j)
    ELSE DecimalTaken(s, positive, d, e0, x, Taken(d, x), f)

\* Deserializer::parse_decimal
parse_decimal(s, positive, d, e0, j) ==
    DecimalDigits(s, positive, d, e0, j,
                  DigitVals(s, j + 1, DigitsEnd(s, j + 1) - 1), DigitsEnd(s, j + 1))

\* Deserializer::parse_number: the significand has the digits d, j is the
\* position after them.
parse_number(s, positive, d, j) ==
    CASE Ch(s, j) = Chr(".") -> parse_decimal(s, positive, d, 0, j)
      [] Ch(s, j) \in {Chr("e"), Chr("E")} -> parse_exponent(s, positive, d, 0, j)
      [] OTHER -> integer_value(s, positive, d, j)

\* Deserializer::parse_long_integer: the significand has taken the digits d
\* and left out e further ones; j is the position after them.
parse_long_integer(s, positive, d, e, j) ==
    CASE Ch(s, j) = Chr(".") -> parse_decimal(s, positive, d, e, j)
      [] Ch(s, j) \in {Chr("e"), Chr("E")} -> parse_exponent(s, positive, d, e, j)
      [] OTHER -> Parts(d, e, j)

\* Deserializer::parse_integer after the digits x of the integer part, of
\* which the significand takes the first k; j is the position after them.
IntegerTaken(s, positive, x, k, j) ==
    IF k = Len(x) THEN parse_number(s, positive, x, j)
    ELSE parse_long_integer(s, positive, SubSeq(x, 1, k), Len(x) - k, j)

\* Deserializer::parse_integer: i is the position after the sign.
parse_integer(s, positive, i) ==
    CASE Ch(s, i) = NoChar -> error_at(s, EofWhileParsingValue, Len(s))
      [] Ch(s, i) = Chr("0") /\ IsDigit(Ch(s, i + 1)) -> peek_error(s, InvalidNumber, i)
      [] Ch(s, i) = Chr("0") /\ ~IsDigit(Ch(s, i + 1)) ->
           parse_number(s, positive, <<0>>, i + 1)
      [] Ch(s, i) # Chr("0") /\ IsDigit(Ch(s, i)) ->
           IntegerTaken(s, positive, DigitVals(s, i, DigitsEnd(s, i) - 1),
                        Taken(<<>>, DigitVals(s, i, DigitsEnd(s, i) - 1)),
                        DigitsEnd(s, i))
      [] OTHER -> peek_error(s, InvalidNumber, i - 1)

\* Deserializer::parse_any_number, given the return r of parse_integer: the
\* parts of a float are handed to f64_from_parts.
NumberOf(s, positive, r) ==
    IF r.ok /\ r.v.t = "parts"
    THEN f64_from_parts(s, positive, r.v.digits, r.v.exp, r.i)
    ELSE r

\* Deserializer::parse_any_number: i is the position after the sign.
parse_any_number(s, positive, i) == NumberOf(s, positive, parse_integer(s, positive, i))
\* parse_ident, given the positions M of rest at which s differs: the first
\* of them is the end of s or a wrong letter.
IdentAt(s, i, rest, val, M) ==
    IF M = {} THEN POk(val, i + Len(rest))
    ELSE IF Ch(s, i + Least(M) - 1) = NoChar THEN error_at(s, EofWhileParsingValue, Len(s))
    ELSE peek_error(s, ExpectedSomeIdent, i + Least(M) - 2)

\* Deserializer::parse_ident: the letters of rest are expected from i on.
parse_ident(s, i, rest, val) ==
    IdentAt(s, i, rest, val, {m \in 1..Len(rest) : Ch(s, i + m - 1) # Ch(rest, m)})

RECURSIVE parse_value(_, _, _), SeqFirst(_, _, _), SeqNext(_, _, _, _),
          SeqElem(_, _, _, _), MapFirst(_, _, _), MapColon(_, _, _, _),
          MapNext(_, _, _, _, _), MapMore(_, _, _, _)

\* Deserializer::deserialize_any for a Value: one JSON value at position i,
\* whitespace skipped; d is remaining_depth.
parse_value(s, i, d) ==
    CASE Ch(s, i) = NoChar -> peek_error(s, EofWhileParsingValue, i - 1)
      [] Ch(s, i) = Chr("n") -> parse_ident(s, i + 1, Str("ull"), JNull)
      [] Ch(s, i) = Chr("t") -> parse_ident(s, i + 1, Str("rue"), JBool(TRUE))
      [] Ch(s, i) = Chr("f") -> parse_ident(s, i + 1, Str("alse"), JBool(FALSE))
      [] Ch(s, i) = Chr("-") \/ IsDigit(Ch(s, i)) ->
             parse_any_number(s, Ch(s, i) # Chr("-"),
                              IF Ch(s, i) = Chr("-") THEN i + 1 ELSE i)
      [] Ch(s, i) = Chr("\"") -> parse_str(s, i + 1, <<>>)
      [] Ch(s, i) \in {Chr("["), Chr("{")} /\ d = 1 ->
             peek_error(s, RecursionLimitExceeded, i - 1)
      [] Ch(s, i) = Chr("[") /\ d # 1 -> SeqFirst(s, SkipWs(s, i + 1), d - 1)
      [] Ch(s, i) = Chr("{") /\ d # 1 -> MapFirst(s, SkipWs(s, i + 1), d - 1)
      [] OTHER -> peek_error(s, ExpectedSomeValue, i - 1)

\* SeqAccess::next_element_seed, first element: j is after the bracket.
SeqFirst(s, j, d) ==
    CASE Ch(s, j) = NoChar -> peek_error(s, EofWhileParsingList, j - 1)
      [] Ch(s, j) = Chr("]") -> POk(JArr(<<>>), j + 1)
      [] OTHER -> SeqNext(s, parse_value(s, j, d), <<>>, d)

\* SeqAccess::next_element_seed, later elements, after the element r: r is
\* collected behind acc, whitespace is skipped, and the array ends or a
\* comma follows.
SeqNext(s, r, acc, d) ==
    CASE ~r.ok -> r
      [] r.ok /\ Ch(s, SkipWs(s, r.i)) = NoChar ->
             peek_error(s, EofWhileParsingList, SkipWs(s, r.i) - 1)
      [] r.ok /\ Ch(s, SkipWs(s, r.i)) = Chr("]") ->
             POk(JArr(Append(acc, r.v)), SkipWs(s, r.i) + 1)
      [] r.ok /\ Ch(s, SkipWs(s, r.i)) = Chr(",") ->
             SeqElem(s, SkipWs(s, SkipWs(s, r.i) + 1), Append(acc, r.v), d)
      [] OTHER -> peek_error(s, ExpectedListCommaOrEnd, SkipWs(s, r.i) - 1)

\* After a comma of an array: j is at the element that must follow.
SeqElem(s, j, a, d) ==
    CASE Ch(s, j) = Chr("]") -> peek_error(s, TrailingComma, j - 1)
      [] Ch(s, j) = NoChar -> peek_error(s, EofWhileParsingValue, j - 1)
      [] OTHER -> SeqNext(s, parse_value(s, j, d), a, d)

\* MapAccess::next_key_seed, first key: j is after the brace.
MapFirst(s, j, d) ==
    CASE Ch(s, j) = NoChar -> peek_error(s, EofWhileParsingObject, j - 1)
      [] Ch(s, j) = Chr("}") -> POk(JObj(NoMembers), j + 1)
      [] Ch(s, j) = Chr("\"") -> MapColon(s, parse_str(s, j + 1, <<>>), NoMembers, d)
      [] OTHER -> peek_error(s, KeyMustBeAString, j - 1)

\* Deserializer::parse_object_colon after the key k, and the member's value.
MapColon(s, k, acc, d) ==
    CASE ~k.ok -> k
      [] k.ok /\ Ch(s, SkipWs(s, k.i)) = NoChar ->
             peek_error(s, EofWhileParsingObject, SkipWs(s, k.i) - 1)
      [] k.ok /\ Ch(s, SkipWs(s, k.i)) = Chr(":") ->
             MapNext(s, k.v.v, parse_value(s, SkipWs(s, SkipWs(s, k.i) + 1), d), acc, d)
      [] OTHER -> peek_error(s, ExpectedColon, SkipWs(s, k.i) - 1)

\* MapAccess::next_key_seed, later keys, after the value r of key: the
\* member is collected, a repeated key keeping its last value, whitespace is
\* skipped, and the object ends or a comma follows.
MapNext(s, key, r, acc, d) ==
    CASE ~r.ok -> r
      [] r.ok /\ Ch(s, SkipWs(s, r.i)) = NoChar ->
             peek_error(s, EofWhileParsingObject, SkipWs(s, r.i) - 1)
      [] r.ok /\ Ch(s, SkipWs(s, r.i)) = Chr("}") ->
             POk(JObj((key :> r.v) @@ acc), SkipWs(s, r.i) + 1)
      [] r.ok /\ Ch(s, SkipWs(s, r.i)) = Chr(",") ->
             MapMore(s, SkipWs(s, SkipWs(s, r.i) + 1), (key :> r.v) @@ acc, d)
      [] OTHER -> peek_error(s, ExpectedObjectCommaOrEnd, SkipWs(s, r.i) - 1)

\* After a comma of an object: j is at the key that must follow.
MapMore(s, j, a, d) ==
    CASE Ch(s, j) = Chr("\"") -> MapColon(s, parse_str(s, j + 1, <<>>), a, d)
      [] Ch(s, j) = Chr("}") -> peek_error(s, TrailingComma, j - 1)
      [] Ch(s, j) = NoChar -> peek_error(s, EofWhileParsingValue, j - 1)
      [] OTHER -> peek_error(s, KeyMustBeAString, j - 1)

\* Deserializer::end on the parse r of s: only whitespace may follow.
Document(s, r) ==
    IF ~r.ok THEN [ok |-> FALSE, v |-> JNull, err |-> ErrorText(s, r)]
    ELSE IF SkipWs(s, r.i) <= Len(s)
         THEN [ok |-> FALSE, v |-> JNull,
               err |-> ErrorText(s, peek_error(s, TrailingCharacters, SkipWs(s, r.i) - 1))]
    ELSE [ok |-> TRUE, v |-> r.v, err |-> <<>>]

\* serde_json::from_str: err is the Display of the error when ok is FALSE.
from_str(s) == Document(s, parse_value(s, SkipWs(s, 1), 128))

\* Value::get(key)
get(j, k) == IF j.t = "obj" /\ k \in DOMAIN j.v THEN Some(j.v[k]) ELSE None

\* value[key]: Null when the value is not an object or lacks the key
Index(j, k) == IF j.t = "obj" /\ k \in DOMAIN j.v THEN j.v[k] ELSE JNull

\* value[0]: Null when the value is not an array or is empty
Index0(j) == IF j.t = "arr" /\ Len(j.v) > 0 THEN j.v[1] ELSE JNull

\* Value::as_str
as_str(j) == IF j.t = "str" THEN Some(j.v) ELSE None

\* Value::as_bool
as_bool(j) == IF j.t = "bool" THEN Some(j.v) ELSE None

\* Option::unwrap_or
unwrap_or(o, d) == IF o = None THEN d ELSE o[1]

\* Option::filter(|k| !k.is_empty())
filter_nonempty(o) == IF o # None /\ o[1] # <<>> THEN o ELSE None

\* Result::or_else / Option::or: the second source only when the first is absent
or_else(a, b) == IF a # None THEN a ELSE b

\* ------------------------------------------------------------- environment
EnvNames == {"SMSH_API_KEY", "SMSH_OPENAI_API_KEY", "OPENAI_API_KEY",
             "SMSH_ANTHROPIC_API_KEY", "ANTHROPIC_API_KEY",
             "SMSH_LLM_PROVIDER", "SMSH_LOG"}

Services == {"smartshell.openai", "smartshell.anthropic"}

\* env::var(name).ok()
env_var(name) == env[name]

\* get_os_context
get_os_context ==
    IF targetOS = "macos" THEN Str("The target system is macOS.")
    ELSE IF targetOS = "linux" THEN Str("The target system is Linux.")
    ELSE Str("")

\* get_api_key
get_api_key(provider) ==
    LET universal == filter_nonempty(env_var("SMSH_API_KEY")) IN
    IF universal # None THEN universal
    ELSE IF provider \notin {Str("openai"), Str("claude")} THEN None
    ELSE LET specific == IF provider = Str("openai") THEN "SMSH_OPENAI_API_KEY"
                         ELSE "SMSH_ANTHROPIC_API_KEY"
             legacy   == IF provider = Str("openai") THEN "OPENAI_API_KEY"
                         ELSE "ANTHROPIC_API_KEY"
             service  == IF provider = Str("openai") THEN "smartshell.openai"
                         ELSE "smartshell.anthropic"
             env_key  == filter_nonempty(or_else(env_var(specific), env_var(legacy)))
         IN  IF env_key # None THEN env_key
             ELSE IF targetOS = "macos" THEN keychain[service]
             ELSE None

\* log_entry: the new contents of the log file.  One record stands for one
\* appended line "[ts] cmd | query: q | result: r"; opened tells whether the
\* file could be opened for appending.
log_entry(cmd, q, result, opened) ==
    IF filter_nonempty(env_var("SMSH_LOG")) # None /\ opened
    THEN Append(log, [cmd |-> cmd, query |-> q, result |-> result])
    ELSE log

\* ------------------------------------------------------------ the network
\* Text of the error serde reports for a body that is not JSON.
DecodeErrText == Str("error decoding response body")

\* JSON string escaping of the two characters the payloads use.
RECURSIVE Esc(_), EscFrom(_, _)
Esc(s) == EscFrom(s, {j \in 1..Len(s) : s[j] \in {Chr("\""), Chr("\\")}})

\* Esc, given the positions S of the characters to escape.
EscFrom(s, S) ==
    IF S = {} THEN s
    ELSE Slice(s, 1, Least(S) - 1) \o <<Chr("\\"), s[Least(S)]>>
             \o Esc(Slice(s, Least(S) + 1, Len(s)))

\* The two-field structured object as JSON text.
PayloadText(result, error) ==
    Str("{\"result\":\"") \o Esc(result) \o Str("\",\"error\":")
        \o (IF error THEN Str("true") ELSE Str("false")) \o Str("}")

\* A chat-completion body whose message content is the given string.
OpenAIBody(content) ==
    Str("{\"choices\":[{\"message\":{\"role\":\"assistant\",\"content\":\"")
        \o Esc(content) \o Str("\"}}]}")

\* A messages body whose first content block is a tool call with the given
\* input (JSON text).
ClaudeBody(input) ==
    Str("{\"content\":[{\"type\":\"tool_use\",\"name\":\"structured_response\",\"input\":")
        \o input \o Str("}]}")

\* The structured objects a provider may return.
Payloads ==
    {PayloadText(t, FALSE) : t \in {Str("ls -a"), Str(""), Str("# use ls instead")}}
    \cup {PayloadText(t, TRUE) : t \in {Str("This is destructive and ambiguous"),
                                        Str("Missing target directory"), Str("")}}
    \cup {Str("{\"result\":\"ls\"}"), Str("{}"),
          Str("{\"result\":\"ls \\u002da\",\"error\":false,\"score\":0.5}")}

\* Bodies an HTTP response may carry.
Bodies ==
    {OpenAIBody(p) : p \in Payloads \cup {Str("not json"), Str("42")}}
    \cup {ClaudeBody(p) : p \in Payloads}
    \cup {Str("<html>502 Bad Gateway</html>"),
          Str("{}"),
          Str("{\"error\":{\"type\":\"invalid_request_error\",\"message\":\"Incorrect API key provided\"}}"),
          Str("{\"choices\":[{\"message\":{\"role\":\"assistant\",\"content\":null}}]}"),
          Str("{\"content\":[{\"type\":\"text\",\"text\":\"ls -a\"}]}")}

\* The texts a run hands to the JSON parser: the bodies and the message
\* contents inside them.
Documents == Bodies \cup Payloads \cup {Str("not json"), Str("42")}

\* from_str on each of these texts, parsed once.
Parsed == [t \in Documents |-> from_str(t)]

\* serde_json::from_str, looked up where the text was parsed before.
json_of(text) == IF text \in Documents THEN Parsed[text] ELSE from_str(text)

\* What the network gives the worker: a transport failure or a body.
NetOutcomes ==
    {[kind |-> "send_err", text |-> Str("error sending request")]}
    \cup {[kind |-> "body", text |-> b] : b \in Bodies}

\* Option::and_then(|m| m.as_str())
and_then_as_str(o) == IF o = None THEN None ELSE as_str(o[1])

\* Option::and_then(|e| e.get("message"))
and_then_get_message(o) == IF o = None THEN None ELSE get(o[1], Str("message"))

\* json.get("error").and_then(|e| e.get("message")).and_then(|m| m.as_str())
api_error(json) == and_then_as_str(and_then_get_message(get(json, Str("error"))))

\* json["choices"][0]["message"]["content"].as_str()
openai_content(json) ==
    as_str(Index(Index(Index0(Index(json, Str("choices"))), Str("message")), Str("content")))

\* &json["content"][0]["input"]
claude_input(json) == Index(Index0(Index(json, Str("content"))), Str("input"))

\* The (result, error) pair read from the structured object.
extract(obj) ==
    [result |-> unwrap_or(as_str(Index(obj, Str("result"))), Str("")),
     error  |-> unwrap_or(as_bool(Index(obj, Str("error"))), FALSE)]

\* The final match of a provider call with the error flag ignored.
to_result_always_ok(x) == Ok(x.result)

\* Err(result) when the error flag is set, Ok(result) otherwise.
to_result(x) == IF x.error THEN Err(x.result) ELSE Ok(x.result)

\* A provider call that returned r before it read a structured pair.
Early(r) == [result |-> r, payload |-> None]

\* A provider call that read the structured pair x and returned on it.
Read(x) == [result |-> to_result(x), payload |-> Some(x)]

\* openai_call, lines 162-170: the content string parsed as JSON.
openai_parsed(parsed) ==
    IF ~parsed.ok THEN Early(Err(Str("Failed to parse response JSON: ") \o parsed.err))
    ELSE Read(extract(parsed.v))

\* openai_call, lines 159-161: the content string of the first choice.
openai_message(content) ==
    IF content = None THEN Early(Err(Str("Missing content in response")))
    ELSE openai_parsed(json_of(content[1]))

\* openai_call, lines 155-158: the body parsed as JSON.
openai_body(json) ==
    IF ~json.ok THEN Early(Err(Str("Invalid response: ") \o DecodeErrText))
    ELSE IF api_error(json.v) # None THEN Early(Err(Str("API error: ") \o api_error(json.v)[1]))
    ELSE openai_message(openai_content(json.v))

\* openai_call, given what the network answers to its request: the value it
\* returns, with the structured pair of lines 164-165 when it reads one.
openai_run(n) ==
    IF get_api_key(Str("openai")) = None THEN Early(Err(Str("OpenAI API key not set")))
    ELSE IF n.kind = "send_err" THEN Early(Err(Str("Request failed: ") \o n.text))
    ELSE openai_body(json_of(n.text))

\* openai_call
openai_call(n) == openai_run(n).result

\* claude_call, lines 196-207: the body parsed as JSON.
claude_body(json) ==
    IF ~json.ok THEN Early(Err(Str("Invalid response: ") \o DecodeErrText))
    ELSE IF api_error(json.v) # None THEN Early(Err(Str("API error: ") \o api_error(json.v)[1]))
    ELSE Read(extract(claude_input(json.v)))

\* claude_call, given what the network answers to its request: the value it
\* returns, with the structured pair of lines 201-202 when it reads one.
claude_run(n) ==
    IF get_api_key(Str("claude")) = None THEN Early(Err(Str("Anthropic API key not set")))
    ELSE IF n.kind = "send_err" THEN Early(Err(Str("Request failed: ") \o n.text))
    ELSE claude_body(json_of(n.text))

\* claude_call
claude_call(n) == claude_run(n).result

\* ---------------------------------------------------------------- main
\* The query of the complete command: --query, or else the trimmed line read
\* from standard input, or else the empty string.
effective_query ==
    IF query # None THEN query[1]
    ELSE IF stdin # None THEN trim(stdin[1])
    ELSE Str("")

\* What main has printed before it decides to abort or to call the provider.
query_prompt == IF command = "complete" /\ query = None THEN Str("> Query: ") ELSE Str("")

\* The text main checks for emptiness: the query, or the buffer of explain.
main_input == IF command = "complete" THEN effective_query ELSE unwrap_or(buffer, Str(""))

\* The message of the early return.
abort_message ==
    IF command = "complete" THEN Str("Completion aborted (empty input).")
    ELSE Str("Nothing to explain.")

\* The system instruction.
intro_text ==
    IF command = "complete"
    THEN Str("Generate a zsh command. Use only ASCII characters (straight quotes, no curly quotes). If the request is unclear or not a valid shell task, set error=true and put an explanation in result. ")
             \o get_os_context
    ELSE Str("Explain zsh commands. Return a short, single-line explanation in the result field. ")
             \o get_os_context

\* The user prompt.
prompt_text ==
    IF command = "complete"
    THEN IF buffer # None /\ buffer[1] # Str("")
         THEN Str("Alter zsh command ") \o tick \o buffer[1] \o tick
                  \o Str(" to comply with query ") \o tick \o effective_query \o tick
         ELSE effective_query
    ELSE unwrap_or(buffer, Str(""))

\* env::var("SMSH_LLM_PROVIDER").unwrap_or_else(|_| "openai")
provider == unwrap_or(env_var("SMSH_LLM_PROVIDER"), Str("openai"))

\* The provider call reaches its HTTP request.
issues_request == provider \in {Str("openai"), Str("claude")} /\ get_api_key(provider) # None

\* The match of the worker closure on the provider, given what the network
\* answers: the closure's result, with the structured pair the provider call
\* read if it got that far.
worker_run(n) ==
    IF provider = Str("openai") THEN openai_run(n)
    ELSE IF provider = Str("claude") THEN claude_run(n)
    ELSE Early(Err(Str("Unknown provider: ") \o provider))

\* The worker closure's result.
worker_result(n) == worker_run(n).result

\* The structured pair the worker closure read, if it got that far.
worker_payload(n) == worker_run(n).payload

\* The guard of the infrastructure-error arm without the credential test.
is_infrastructure_no_key_test(e) ==
    \/ starts_with(e, Str("Request failed"))
    \/ starts_with(e, Str("API error"))
    \/ starts_with(e, Str("Invalid response"))
    \/ starts_with(e, Str("Missing"))
    \/ starts_with(e, Str("Failed to parse"))

\* The guard of the infrastructure-error arm of complete.
is_infrastructure(e) ==
    \/ starts_with(e, Str("Request failed"))
    \/ starts_with(e, Str("API error"))
    \/ starts_with(e, Str("Invalid response"))
    \/ starts_with(e, Str("Missing"))
    \/ starts_with(e, Str("Failed to parse"))
    \/ contains(e, Str("API key"))

\* The match of the complete command without the arm for a leading '#'.
complete_outcome_no_comment_arm(r) ==
    IF r.ok THEN [logged |-> r.v, printed |-> r.v, code |-> 0]
    ELSE IF contains(r.v, Str("API key")) \/ starts_with(r.v, Str("Request failed"))
            \/ starts_with(r.v, Str("API error")) \/ starts_with(r.v, Str("Invalid response"))
            \/ starts_with(r.v, Str("Missing")) \/ starts_with(r.v, Str("Failed to parse"))
         THEN [logged |-> Str("ERROR: ") \o r.v, printed |-> r.v, code |-> 1]
    ELSE [logged |-> Str("REFUSED: ") \o r.v, printed |-> Str("# ") \o r.v, code |-> 2]

\* The match on llm_api_call's result in the complete command: the result
\* field to log, the line to print and the exit status.
complete_outcome(r) ==
    IF r.ok /\ starts_with(r.v, Str("#")) THEN [logged |-> r.v, printed |-> r.v, code |-> 1]
    ELSE IF r.ok THEN [logged |-> r.v, printed |-> r.v, code |-> 0]
    ELSE IF is_infrastructure(r.v)
         THEN [logged |-> Str("ERROR: ") \o r.v, printed |-> r.v, code |-> 1]
    ELSE [logged |-> Str("REFUSED: ") \o r.v, printed |-> Str("# ") \o r.v, code |-> 2]

\* The match on llm_api_call's result in the explain command.
explain_outcome(r) ==
    IF r.ok THEN [logged |-> r.v, printed |-> Str("# ") \o r.v, code |-> 0]
    ELSE [logged |-> Str("ERROR: ") \o r.v, printed |-> r.v, code |-> 1]

\* The ten spinner frames, each one braille glyph: U+280B, U+2819, U+2839,
\* U+2838, U+283C, U+2834, U+2826, U+2827, U+2807, U+280F.
spinner ==
    <<<<10251>>, <<10265>>, <<10297>>, <<10296>>, <<10300>>,
      <<10292>>, <<10278>>, <<10279>>, <<10247>>, <<10255>>>>

\* The escape sequence that clears the spinner line.
clear_line == Str("\r") \o <<27>> \o Str("[K")

\* A try_recv that reports disconnection before it looks at the queue.
try_recv_disconnect_first(q, alive) ==
    IF ~alive THEN [kind |-> "Disconnected", v |-> Err(Str(""))]
    ELSE IF Len(q) > 0 THEN [kind |-> "Ok", v |-> q[1]]
    ELSE [kind |-> "Empty", v |-> Err(Str(""))]

\* Receiver::try_recv: a queued value first, then disconnection.
try_recv(q, alive) ==
    IF Len(q) > 0 THEN [kind |-> "Ok", v |-> q[1]]
    ELSE IF alive THEN [kind |-> "Empty", v |-> Err(Str(""))]
    ELSE [kind |-> "Disconnected", v |-> Err(Str(""))]

\* ------------------------------------------------------------------ inputs
Buffers == {None, Some(Str("")), Some(Str("ls"))}
Queries == {None, Some(Str("")), Some(Str("hidden files too"))}
\* Lines read from standard input; the last one is a vertical tab, a
\* no-break space, an ideographic space and the line feed.
Stdins ==
    {None, Some(Str("\n")), Some(Str("  show disk usage \n")),
     Some(<<11, 160, 12288>> \o Str("\n"))}

\* An environment from the values of its variables.
MkEnv(universal, openaiNew, openaiOld, claudeNew, claudeOld, prov, logPath) ==
    [n \in EnvNames |->
        CASE n = "SMSH_API_KEY" -> universal
          [] n = "SMSH_OPENAI_API_KEY" -> openaiNew
          [] n = "OPENAI_API_KEY" -> openaiOld
          [] n = "SMSH_ANTHROPIC_API_KEY" -> claudeNew
          [] n = "ANTHROPIC_API_KEY" -> claudeOld
          [] n = "SMSH_LLM_PROVIDER" -> prov
          [] n = "SMSH_LOG" -> logPath]

\* A secret store without entries.
EmptyKeychain == [sv \in Services |-> None]

\* A secret store holding a password for the OpenAI service only.
OpenAIKeychain == [sv \in Services |-> IF sv = "smartshell.openai" THEN Some(Str("sk-kc")) ELSE None]

\* Build target and secret store of a run.
Platforms ==
    {[os |-> "linux", kc |-> EmptyKeychain], [os |-> "macos", kc |-> OpenAIKeychain]}

\* Environments of a run.
RunEnvs ==
    {MkEnv(u, None, None, None, None, p, l) :
        u \in {None, Some(Str("sk-universal"))},
        p \in {None, Some(Str("claude")), Some(Str("gemini"))},
        l \in {None, Some(Str("")), Some(Str("/tmp/smsh.log"))}}

\* State shared by every initial state: nothing has run yet.
Idle ==
    /\ wpc = "none" /\ chan = <<>> /\ txAlive = FALSE
    /\ tty = FALSE /\ ttyOut = Str("") /\ idx = 0
    /\ net = None /\ payload = None /\ wResult = None /\ wSent = None
    /\ ret = None /\ retVia = "none" /\ httpCount = 0
    /\ stdout = Str("") /\ log = <<>> /\ exitCode = None /\ keyOut = None

Init ==
    /\ command \in {"complete", "explain"}
    /\ buffer \in Buffers
    /\ query \in (IF command = "complete" THEN Queries ELSE {None})
    /\ stdin \in (IF command = "complete" /\ query = None THEN Stdins ELSE {None})
    /\ env \in RunEnvs
    /\ \E pf \in Platforms : targetOS = pf.os /\ keychain = pf.kc
    /\ pc = "start"
    /\ Idle

\* ----------------------------------------------------------------- actions
\* main, lines 211-226 and 260-264: empty input, early return.
MainAbort ==
    /\ pc = "start"
    /\ main_input = Str("")
    /\ stdout' = stdout \o query_prompt \o abort_message \o Str("\n")
    /\ exitCode' = Some(0)
    /\ pc' = "exited"
    /\ UNCHANGED <<command, buffer, query, stdin, env, targetOS, keychain, wpc,
                   chan, txAlive, tty, ttyOut, idx, net, payload, wResult, wSent,
                   ret, retVia, httpCount, log, keyOut>>

\* main up to the call of llm_api_call, and llm_api_call, lines 94-111: the
\* channel is created, the worker is spawned, /dev/tty is opened.
MainCall ==
    /\ pc = "start"
    /\ main_input # Str("")
    /\ stdout' = stdout \o query_prompt
    /\ chan' = <<>>
    /\ txAlive' = TRUE
    /\ wpc' = "running"
    /\ idx' = 0
    /\ \E opened \in BOOLEAN : tty' = opened
    /\ pc' = "poll"
    /\ UNCHANGED <<command, buffer, query, stdin, env, targetOS, keychain,
                   ttyOut, net, payload, wResult, wSent, ret, retVia, httpCount,
                   log, exitCode, keyOut>>

\* The provider call up to send(), lines 135-152 and 174-193: the key is
\* resolved, the client is built and the request goes out.
WorkerRequest ==
    /\ wpc = "running"
    /\ pc # "exited"
    /\ issues_request
    /\ httpCount' = httpCount + 1
    /\ wpc' = "requested"
    /\ UNCHANGED <<command, buffer, query, stdin, env, targetOS, keychain, pc,
                   chan, txAlive, tty, ttyOut, idx, net, payload, wResult, wSent,
                   ret, retVia, stdout, log, exitCode, keyOut>>

\* The worker closure, lines 102-106, comes to its result: the answer of the
\* network is read when a request went out, and the call returns at once
\* when none does.
WorkerCall ==
    /\ wpc = (IF issues_request THEN "requested" ELSE "running")
    /\ pc # "exited"
    /\ \E n \in (IF issues_request THEN NetOutcomes
                 ELSE {[kind |-> "none", text |-> Str("")]}) :
        /\ net' = IF issues_request THEN Some(n) ELSE None
        /\ \E w \in {worker_run(n)} :
               /\ wResult' = Some(w.result)
               /\ payload' = w.payload
    /\ wpc' = "computed"
    /\ UNCHANGED <<command, buffer, query, stdin, env, targetOS, keychain, pc,
                   chan, txAlive, tty, ttyOut, idx, wSent, ret, retVia, httpCount,
                   stdout, log, exitCode, keyOut>>

\* The worker panics while it builds the HTTP client (lines 136, 180): the
\* closure unwinds, the sender is dropped and nothing is sent.
WorkerPanic ==
    /\ wpc = "running"
    /\ pc # "exited"
    /\ issues_request
    /\ txAlive' = FALSE
    /\ wpc' = "done"
    /\ UNCHANGED <<command, buffer, query, stdin, env, targetOS, keychain, pc,
                   chan, tty, ttyOut, idx, net, payload, wResult, wSent, ret,
                   retVia, httpCount, stdout, log, exitCode, keyOut>>

\* The worker closure, line 107: tx.send(result).
WorkerSend ==
    /\ wpc = "computed"
    /\ pc # "exited"
    /\ chan' = Append(chan, wResult[1])
    /\ wSent' = wResult
    /\ wpc' = "sent"
    /\ UNCHANGED <<command, buffer, query, stdin, env, targetOS, keychain, pc,
                   txAlive, tty, ttyOut, idx, net, payload, wResult, ret, retVia,
                   httpCount, stdout, log, exitCode, keyOut>>

\* The worker closure, line 108: the closure ends and drops the sender.
WorkerExit ==
    /\ wpc = "sent"
    /\ pc # "exited"
    /\ txAlive' = FALSE
    /\ wpc' = "done"
    /\ UNCHANGED <<command, buffer, query, stdin, env, targetOS, keychain, pc,
                   chan, tty, ttyOut, idx, net, payload, wResult, wSent, ret,
                   retVia, httpCount, stdout, log, exitCode, keyOut>>

\* llm_api_call, lines 113-117: a value is received and returned.
PollOk ==
    /\ pc = "poll"
    /\ try_recv(chan, txAlive).kind = "Ok"
    /\ ret' = Some(try_recv(chan, txAlive).v)
    /\ retVia' = "ok"
    /\ chan' = Tail(chan)
    /\ ttyOut' = IF tty THEN ttyOut \o clear_line ELSE ttyOut
    /\ pc' = "dispatch"
    /\ UNCHANGED <<command, buffer, query, stdin, env, targetOS, keychain, wpc,
                   txAlive, tty, idx, net, payload, wResult, wSent, httpCount,
                   stdout, log, exitCode, keyOut>>

\* The frame of the next iteration.
frame_of_next(i) == spinner[((i + 1) % Len(spinner)) + 1]

\* llm_api_call, line 120: spinner[idx % spinner.len()]
frame(i) == spinner[(i % Len(spinner)) + 1]

\* llm_api_call, line 118: try_recv finds the channel empty and the sender
\* alive; explored for at most bound iterations.
PollEmptyUpTo(bound) ==
    /\ pc = "poll"
    /\ try_recv(chan, txAlive).kind = "Empty"
    /\ idx < bound
    /\ pc' = "draw"
    /\ UNCHANGED <<command, buffer, query, stdin, env, targetOS, keychain, wpc,
                   chan, txAlive, tty, ttyOut, idx, net, payload, wResult, wSent,
                   ret, retVia, httpCount, stdout, log, exitCode, keyOut>>

\* The empty poll in a full run.
PollEmpty == PollEmptyUpTo(MaxPolls)

\* The empty poll when the polling loop is studied on its own.
PollSpin == PollEmptyUpTo(MaxSpin)

\* llm_api_call, lines 119-122: the frame is written to the terminal, if it
\* is open, and flushed.
PollDraw ==
    /\ pc = "draw"
    /\ ttyOut' = IF tty THEN ttyOut \o Str("\r") \o frame(idx) ELSE ttyOut
    /\ pc' = "sleep"
    /\ UNCHANGED <<command, buffer, query, stdin, env, targetOS, keychain, wpc,
                   chan, txAlive, tty, idx, net, payload, wResult, wSent, ret,
                   retVia, httpCount, stdout, log, exitCode, keyOut>>

\* llm_api_call, lines 123-124: the sleep of 100 ms is over and the frame
\* index goes up; the loop polls again.
PollSleep ==
    /\ pc = "sleep"
    /\ idx' = idx + 1
    /\ pc' = "poll"
    /\ UNCHANGED <<command, buffer, query, stdin, env, targetOS, keychain, wpc,
                   chan, txAlive, tty, ttyOut, net, payload, wResult, wSent, ret,
                   retVia, httpCount, stdout, log, exitCode, keyOut>>

\* llm_api_call, lines 126-129: the sender is gone and nothing was queued.
PollDisconnected ==
    /\ pc = "poll"
    /\ try_recv(chan, txAlive).kind = "Disconnected"
    /\ ret' = Some(Err(Str("Background thread failed")))
    /\ retVia' = "disconnected"
    /\ ttyOut' = IF tty THEN ttyOut \o clear_line ELSE ttyOut
    /\ pc' = "dispatch"
    /\ UNCHANGED <<command, buffer, query, stdin, env, targetOS, keychain, wpc,
                   chan, txAlive, tty, idx, net, payload, wResult, wSent,
                   httpCount, stdout, log, exitCode, keyOut>>

\* main, lines 237-257 and 270-280: log, print, exit.
Dispatch ==
    /\ pc = "dispatch"
    /\ \E o \in {IF command = "complete" THEN complete_outcome(ret[1])
                 ELSE explain_outcome(ret[1])} :
           /\ \E opened \in BOOLEAN : log' = log_entry(Str(command), main_input, o.logged, opened)
           /\ stdout' = stdout \o o.printed \o Str("\n")
           /\ exitCode' = Some(o.code)
    /\ pc' = "exited"
    /\ UNCHANGED <<command, buffer, query, stdin, env, targetOS, keychain, wpc,
                   chan, txAlive, tty, ttyOut, idx, net, payload, wResult, wSent,
                   ret, retVia, httpCount, keyOut>>

Next ==
    \/ MainAbort
    \/ MainCall
    \/ WorkerRequest
    \/ WorkerCall
    \/ WorkerPanic
    \/ WorkerSend
    \/ WorkerExit
    \/ PollOk
    \/ PollEmpty
    \/ PollDraw
    \/ PollSleep
    \/ PollDisconnected
    \/ Dispatch

Spec == Init /\ [][Next]_vars

\* ------------------------------------------------- the polling loop alone
\* Runs that differ in the command and in whether a key is configured.
LiveEnvs == {MkEnv(u, None, None, None, None, None, None) : u \in {None, Some(Str("sk-universal"))}}

LiveInit ==
    /\ command \in {"complete", "explain"}
    /\ buffer \in {None, Some(Str("ls"))}
    /\ query \in (IF command = "complete" THEN {Some(Str("")), Some(Str("hidden files too"))}
                  ELSE {None})
    /\ stdin = None
    /\ env \in LiveEnvs
    /\ targetOS = "linux" /\ keychain = EmptyKeychain
    /\ pc = "start"
    /\ Idle

LiveNext ==
    \/ MainAbort
    \/ MainCall
    \/ WorkerRequest
    \/ WorkerCall
    \/ WorkerPanic
    \/ WorkerSend
    \/ WorkerExit
    \/ PollOk
    \/ PollSpin
    \/ PollDraw
    \/ PollSleep
    \/ PollDisconnected
    \/ Dispatch

\* Both threads are scheduled; only the provider call itself may never end.
LiveSpec ==
    /\ LiveInit
    /\ [][LiveNext]_vars
    /\ WF_vars(WorkerSend)
    /\ WF_vars(WorkerExit)
    /\ WF_vars(PollOk)
    /\ WF_vars(PollSpin)
    /\ WF_vars(PollDraw)
    /\ WF_vars(PollSleep)
    /\ WF_vars(PollDisconnected)
    /\ WF_vars(Dispatch)

\* ------------------------------------------------- the key resolver alone
KeyEnvs ==
    {MkEnv(u, a, b, c, d, None, None) :
        u \in {None, Some(Str("")), Some(Str("sk-universal"))},
        a \in {None, Some(Str("")), Some(Str("sk-new"))},
        b \in {None, Some(Str("")), Some(Str("sk-old"))},
        c \in {None, Some(Str("sk-new"))},
        d \in {None, Some(Str("")), Some(Str("sk-old"))}}

KeyPlatforms ==
    {[os |-> o, kc |-> EmptyKeychain] : o \in {"linux", "other"}}
    \cup {[os |-> "macos", kc |-> [sv \in Services |-> k]] : k \in {None, Some(Str("sk-kc"))}}

KeyInit ==
    /\ command = "complete" /\ buffer = None /\ query = None /\ stdin = None
    /\ env \in KeyEnvs
    /\ \E pf \in KeyPlatforms : targetOS = pf.os /\ keychain = pf.kc
    /\ pc = "resolve"
    /\ Idle

\* One call of get_api_key.
KeyResolve ==
    /\ pc = "resolve"
    /\ \E p \in {Str("openai"), Str("claude"), Str("gemini")} :
        keyOut' = Some([provider |-> p, key |-> get_api_key(p)])
    /\ pc' = "resolved"
    /\ UNCHANGED <<command, buffer, query, stdin, env, targetOS, keychain, wpc,
                   chan, txAlive, tty, ttyOut, idx, net, payload, wResult, wSent,
                   ret, retVia, httpCount, stdout, log, exitCode>>

KeyNext == KeyResolve

KeySpec == KeyInit /\ [][KeyNext]_vars

\* ------------------------------------------------------------- properties
\* The process has terminated.
Exited == pc = "exited"

\* The provider's structured object was read and carries error=true.
ErrorFlagged == payload # None /\ payload[1].error

\* The provider's structured object was read and carries error=false.
ErrorClear == payload # None /\ ~payload[1].error

\* Every line written to the log has the given result field.
LoggedOnly(result) ==
    /\ Len(log) <= 1
    /\ \A i \in DOMAIN log : log[i].result = result /\ log[i].cmd = Str(command)

\* C1: whenever the structured payload has error=true, the process does not
\* end with exit code 0: complete ends with 1 or 2, explain ends with 1.
C1_ErrorNeverExitsZero ==
    (Exited /\ ErrorFlagged) =>
        /\ exitCode # Some(0)
        /\ command = "complete" => exitCode \in {Some(1), Some(2)}
        /\ command = "explain" => exitCode = Some(1)

C1_Witness ==
    /\ Exited /\ ErrorFlagged /\ command = "explain" /\ provider = Str("claude")
    /\ exitCode = Some(1)

\* C2: in complete, every response with error=true ends as a model refusal,
\* whatever its result text: logged as "REFUSED: " + text, printed as
\* "# " + text, exit code 2.
C2_ErrorIsRefusal ==
    (Exited /\ command = "complete" /\ ErrorFlagged) =>
        /\ exitCode = Some(2)
        /\ stdout = query_prompt \o Str("# ") \o payload[1].result \o Str("\n")
        /\ LoggedOnly(Str("REFUSED: ") \o payload[1].result)

\* C3: in complete, every failure of llm_api_call that is not a response
\* with error=true is an infrastructure error (logged as "ERROR: " + message,
\* printed as it is, exit code 1); exit code 2 and the REFUSED prefix occur
\* only for a response with error=true.
C3_OtherFailuresAreInfrastructure ==
    (Exited /\ command = "complete" /\ ret # None) =>
        /\ (~ret[1].ok /\ ~ErrorFlagged) =>
              /\ exitCode = Some(1)
              /\ stdout = query_prompt \o ret[1].v \o Str("\n")
              /\ LoggedOnly(Str("ERROR: ") \o ret[1].v)
        /\ exitCode = Some(2) => ErrorFlagged
        /\ (\E i \in DOMAIN log : starts_with(log[i].result, Str("REFUSED:"))) => ErrorFlagged

\* C4: in complete, a response with error=false is logged without a prefix
\* and printed verbatim; the exit code is 1 when the text begins with '#'
\* and 0 otherwise, the empty text included.
C4_SuccessOutcome ==
    (Exited /\ command = "complete" /\ ErrorClear) =>
        /\ stdout = query_prompt \o payload[1].result \o Str("\n")
        /\ LoggedOnly(payload[1].result)
        /\ exitCode = IF Ch(payload[1].result, 1) = Chr("#") THEN Some(1) ELSE Some(0)

C4_Witness ==
    /\ Exited /\ command = "complete" /\ ErrorClear
    /\ payload[1].result = Str("# use ls instead")
    /\ exitCode = Some(1) /\ Len(log) = 1

\* C5: under every interleaving of worker and polling loop, llm_api_call
\* returns one result once; a value the worker sent is the value returned,
\* and the "Background thread failed" arm is taken only when the worker has
\* ended without sending.
C5_OneResultOnce ==
    /\ [](/\ Len(chan) <= 1
          /\ ret # None => (retVia # "none" /\ chan = <<>>)
          /\ (ret # None /\ wSent # None) => (retVia = "ok" /\ ret = wSent)
          /\ retVia = "ok" => ret = wSent
          /\ retVia = "disconnected" =>
                /\ wSent = None /\ wpc = "done"
                /\ ret = Some(Err(Str("Background thread failed"))))
    /\ [][ret # None => ret' = ret]_vars

C5_Witness ==
    /\ pc = "dispatch" /\ retVia = "ok" /\ wpc = "done" /\ idx = 0
    /\ ret = wSent /\ chan = <<>>

\* The sources of a provider's key in the order of the resolver.
KeySources(p) ==
    <<env["SMSH_API_KEY"],
      env[IF p = Str("openai") THEN "SMSH_OPENAI_API_KEY" ELSE "SMSH_ANTHROPIC_API_KEY"],
      env[IF p = Str("openai") THEN "OPENAI_API_KEY" ELSE "ANTHROPIC_API_KEY"],
      IF targetOS = "macos"
      THEN keychain[IF p = Str("openai") THEN "smartshell.openai" ELSE "smartshell.anthropic"]
      ELSE None>>

\* The first source that is present and not empty, None when there is none.
FirstPresent(srcs) ==
    LET P == {i \in DOMAIN srcs : srcs[i] # None /\ srcs[i][1] # Str("")} IN
    IF P = {} THEN None ELSE srcs[Least(P)]

\* C6: for a known provider get_api_key returns the first source, in the
\* order universal, provider-specific, legacy, secret store (macOS only),
\* that is present and not empty; an empty source counts as absent.
C6_FirstNonEmptySource ==
    (keyOut # None /\ keyOut[1].provider \in {Str("openai"), Str("claude")}) =>
        keyOut[1].key = FirstPresent(KeySources(keyOut[1].provider))

\* C7: when no key resolves for openai or claude, no HTTP request is issued,
\* llm_api_call returns an error containing "API key not set", which is
\* printed as it is and logged with the ERROR: prefix, and the exit code is 1.
C7_MissingKey ==
    (provider \in {Str("openai"), Str("claude")} /\ get_api_key(provider) = None) =>
        /\ httpCount = 0 /\ net = None
        /\ (Exited /\ wpc # "none") =>
              /\ ret # None /\ ~ret[1].ok
              /\ contains(ret[1].v, Str("API key not set"))
              /\ stdout = query_prompt \o ret[1].v \o Str("\n")
              /\ LoggedOnly(Str("ERROR: ") \o ret[1].v)
              /\ exitCode = Some(1)

C7_Witness ==
    /\ Exited /\ wpc # "none" /\ command = "complete" /\ provider = Str("claude")
    /\ get_api_key(provider) = None
    /\ ret = Some(Err(Str("Anthropic API key not set"))) /\ Len(log) = 1

\* The input is empty: the query given by --query is empty, or the line read
\* from standard input is missing or all whitespace, or the buffer of explain
\* is absent or empty.
EmptyInput ==
    IF command = "complete"
    THEN \/ query = Some(Str(""))
         \/ query = None /\ stdin = None
         \/ query = None /\ stdin # None
                /\ \A i \in 1..Len(stdin[1]) : IsWs(Ch(stdin[1], i))
    ELSE buffer \in {None, Some(Str(""))}

\* C8: an empty input aborts without side effects: the abort message is
\* printed, the exit code is 0, no worker is spawned, no request is issued
\* and nothing is logged.
C8_EmptyInputAborts ==
    EmptyInput =>
        /\ wpc = "none" /\ httpCount = 0 /\ log = <<>>
        /\ pc \in {"start", "exited"}
        /\ Exited => /\ exitCode = Some(0)
                     /\ stdout = query_prompt \o abort_message \o Str("\n")

C8_Witness ==
    /\ Exited /\ command = "complete" /\ query = None
    /\ stdin = Some(<<11, 160, 12288>> \o Str("\n"))
    /\ stdout = Str("> Query: Completion aborted (empty input).\n")

\* The parsed body json has no API error object, and its structured content
\* is missing or unparsable for the selected provider.
ContentMissingIn(json) ==
    /\ json.ok
    /\ api_error(json.v) = None
    /\ IF provider = Str("openai")
       THEN \/ openai_content(json.v) = None
            \/ ~json_of(openai_content(json.v)[1]).ok
       ELSE claude_input(json.v).t # "obj"

\* The worker received such a body.
ContentMissing ==
    /\ net # None /\ net[1].kind = "body"
    /\ ContentMissingIn(json_of(net[1].text))

\* C9: for both providers, a JSON body without an API error object whose
\* structured content is missing or unparsable makes the call fail with a
\* message about the content; the call never returns Ok.
C9_MissingContentFails ==
    (wResult # None /\ ContentMissing) =>
        /\ ~wResult[1].ok
        /\ \/ starts_with(wResult[1].v, Str("Missing content"))
           \/ starts_with(wResult[1].v, Str("Failed to parse"))

\* The worker has sent its result or has terminated.
WorkerFinished == wSent # None \/ wpc = "done"

\* The main thread is inside the polling loop of llm_api_call.
InLoop == pc \in {"poll", "draw", "sleep"}

\* C10: the polling loop returns only after the worker has sent its result
\* or terminated, and while the worker is still running the main thread stays
\* in the loop without a result; try_recv finds the channel empty only while
\* the worker has neither sent nor terminated, and each empty poll then draws
\* frame idx mod 10 when the terminal is open, draws nothing when it is not,
\* and after that advances the frame index by one and polls again; nothing
\* else moves the index; once the worker has sent or terminated,
\* llm_api_call eventually returns, with or without a terminal.
C10_PollUntilFinished ==
    /\ [](ret # None => WorkerFinished)
    /\ [][(InLoop /\ ~WorkerFinished) => (InLoop' /\ ret' = None)]_vars
    /\ [][(pc = "poll" /\ pc' = "draw") =>
            (~WorkerFinished /\ idx' = idx /\ ttyOut' = ttyOut /\ ret' = None)]_vars
    /\ [][(pc = "draw" /\ pc' # "draw") =>
            /\ pc' = "sleep" /\ idx' = idx /\ ret' = None
            /\ ttyOut' = IF tty THEN ttyOut \o Str("\r") \o spinner[(idx % 10) + 1]
                         ELSE ttyOut]_vars
    /\ [][(pc = "sleep" /\ pc' # "sleep") =>
            (pc' = "poll" /\ idx' = idx + 1 /\ ttyOut' = ttyOut /\ ret' = None)]_vars
    /\ [][idx' # idx => (pc = "sleep" /\ pc' = "poll")]_vars
    /\ [][(pc' = "draw" /\ pc # "draw") => pc = "poll"]_vars
    /\ [][(pc' = "sleep" /\ pc # "sleep") => pc = "draw"]_vars
    /\ \A t \in BOOLEAN :
          (InLoop /\ tty = t /\ WorkerFinished) ~> (ret # None /\ tty = t)

C10_Witness ==
    /\ pc = "dispatch" /\ idx = 11 /\ tty /\ retVia = "ok"
    /\ ttyOut = <<13, 10251, 13, 10265, 13, 10297, 13, 10296, 13, 10300, 13, 10292,
                  13, 10278, 13, 10279, 13, 10247, 13, 10255, 13, 10251>>
                    \o clear_line

====
